---- MODULE Spec2Model ----
(***************************************************************************)
(* Model of the backend-for-frontend API routes of the Cardano 1inch       *)
(* Fusion frontend (gas price, NFT, wallet history, portfolio, token,      *)
(* spot price, trace and domain routes) and of the wallet provider module. *)
(*                                                                         *)
(* One route-handler invocation is modelled at a time.  An action is the   *)
(* synchronous code the handler runs between two awaits: the entry of GET  *)
(* or POST up to the first upstream fetch, the continuation after the      *)
(* upstream answered, and the continuation after a rate-limiting timer.    *)
(*                                                                         *)
(* Strings the code inspects character by character (addresses, domain     *)
(* names, limit and offset) are sequences of one-character strings; every  *)
(* other parameter is a TLA+ string, with Undefined for an absent one.     *)
(***************************************************************************)
EXTENDS Integers, Sequences, FiniteSets, TLC

(***************************************************************************)
(* Bounds of the model.                                                    *)
(***************************************************************************)
MaxBatch == 2        \* longest chains/requests/operations list
MaxInFlight == 2     \* most fetches of one panel awaiting an answer
MaxUpdates == 2      \* most times one panel sets lastUpdated

(***************************************************************************)
(* Strings.                                                                *)
(***************************************************************************)
Undefined == "undefined"   \* an absent parameter (null or undefined in JS)
Empty == << >>             \* the empty string, also an absent character string

HexDigits == {"0", "1", "2", "3", "4", "5", "6", "7", "8", "9",
              "a", "b", "c", "d", "e", "f", "A", "B", "C", "D", "E", "F"}
DecDigits == {"0", "1", "2", "3", "4", "5", "6", "7", "8", "9"}
WhiteSpace == {" ", "\t"}
AddressHexLen == 40

\* n copies of the character c
Rep(c, n) == [i \in 1..n |-> c]

\* !x of JavaScript for a parameter that is a TLA+ string
Missing(x) == x = Undefined \/ x = ""

\* !s of JavaScript for a character string (null, undefined and '' are falsy)
Blank(s) == Len(s) = 0

\* a || b of JavaScript, for TLA+ strings and for character strings
OrElse(a, b) == IF Missing(a) THEN b ELSE a
OrElseChars(a, b) == IF Blank(a) THEN b ELSE a

\* /^0x[a-fA-F0-9]{40}$/.test(s)
IsAddress(s) ==
    /\ Len(s) = 2 + AddressHexLen
    /\ s[1] = "0"
    /\ s[2] = "x"
    /\ \A i \in 3..Len(s) : s[i] \in HexDigits

\* String.prototype.trim: the string between its first and its last
\* character that is no white space
Trim(s) ==
    LET solid == {k \in 1..Len(s) : s[k] \notin WhiteSpace}
    IN  IF solid = {} THEN << >>
        ELSE SubSeq(s, CHOOSE k \in solid : \A m \in solid : k <= m,
                       CHOOSE k \in solid : \A m \in solid : k >= m)
TrimLeft(s) ==
    LET solid == {k \in 1..Len(s) : s[k] \notin WhiteSpace}
    IN  IF solid = {} THEN << >>
        ELSE SubSeq(s, CHOOSE k \in solid : \A m \in solid : k <= m, Len(s))

\* String.prototype.split(','): the pieces between the commas, in order
Split(s) ==
    LET commas == {k \in 1..Len(s) : s[k] = ","}
        \* the position of the n-th comma; 0 and Len(s) + 1 bracket the string
        comma(n) == IF n = 0 THEN 0
                    ELSE IF n > Cardinality(commas) THEN Len(s) + 1
                    ELSE CHOOSE c \in commas : Cardinality({d \in commas : d < c}) = n - 1
    IN  [n \in 1..(Cardinality(commas) + 1) |->
            SubSeq(s, comma(n - 1) + 1, comma(n) - 1)]

\* addresses.split(',').every(addr => /^0x[a-fA-F0-9]{40}$/.test(addr.trim()))
validAddresses(addresses) ==
    LET addressList == Split(addresses)
    IN  \A k \in 1..Len(addressList) : IsAddress(Trim(addressList[k]))

\* domain.includes('.')
Includes(s, c) == \E i \in 1..Len(s) : s[i] = c

\* the value of one decimal digit
DigitValue(c) ==
    CASE c = "0" -> 0 [] c = "1" -> 1 [] c = "2" -> 2 [] c = "3" -> 3
      [] c = "4" -> 4 [] c = "5" -> 5 [] c = "6" -> 6 [] c = "7" -> 7
      [] c = "8" -> 8 [] c = "9" -> 9

\* parseInt(s): skips leading white space, takes an optional sign and then
\* the longest run of decimal digits; NaN when that run is empty.
NaN == [nan |-> TRUE, n |-> 0]
Num(n) == [nan |-> FALSE, n |-> n]
RECURSIVE DigitsValue(_, _, _)
DigitsValue(s, i, acc) ==
    IF i <= Len(s) /\ s[i] \in DecDigits
    THEN DigitsValue(s, i + 1, 10 * acc + DigitValue(s[i]))
    ELSE acc
parseInt(str) ==
    LET s    == TrimLeft(str)
        neg  == Len(s) > 0 /\ s[1] = "-"
        sgn  == Len(s) > 0 /\ s[1] \in {"-", "+"}
        from == IF sgn THEN 2 ELSE 1
    IN  IF from > Len(s) \/ s[from] \notin DecDigits THEN NaN
        ELSE IF neg THEN Num(0 - DigitsValue(s, from, 0))
        ELSE Num(DigitsValue(s, from, 0))

(***************************************************************************)
(* Sampled inputs.  Character strings are built from the regular           *)
(* expression's own length, so that the samples sit on its boundaries.     *)
(***************************************************************************)
Chars2(a, b) == << a, b >>
ValidAddr  == Chars2("0", "x") \o Rep("a", AddressHexLen)
ValidAddr2 == Chars2("0", "x") \o Rep("F", AddressHexLen)
ShortAddr  == Chars2("0", "x") \o Rep("a", AddressHexLen - 1)
NonHexAddr == Chars2("0", "x") \o Rep("a", AddressHexLen - 1) \o << "g" >>
PaddedAddr == << " " >> \o ValidAddr

AddressSamples == {Empty, ValidAddr, ShortAddr, NonHexAddr, PaddedAddr}
AddressesSamples ==
    {Empty, ValidAddr, ValidAddr \o << "," >> \o ValidAddr2,
     ValidAddr \o << "," >> \o ShortAddr, PaddedAddr}
LimitSamples  == {Empty, << "1" >>, << "1", "0", "0" >>, << "1", "0", "1" >>, << "5", "x" >>}
OffsetSamples == {Empty, << "-", "1" >>}
DomainSamples == {Empty, << "a", ".", "e", "t", "h" >>, << "e", "t", "h" >>}
ChainSamples   == {Undefined, "polygon", "mars"}
ChainIdSamples == {Undefined, "137"}

(***************************************************************************)
(* Query parameters of a GET (searchParams.get) and fields of a POST       *)
(* element: one record shape for every route; a route reads the fields it  *)
(* knows and ignores the others.                                           *)
(***************************************************************************)
NoParams ==
    [action |-> Undefined, chain |-> Undefined, chainId |-> Undefined,
     chainIds |-> Undefined, address |-> Empty, addresses |-> Empty,
     limit |-> Empty, offset |-> Empty, domain |-> Empty,
     query |-> Undefined, blockNumber |-> Undefined, txHash |-> Undefined,
     fromTimestamp |-> Undefined, toTimestamp |-> Undefined,
     provider |-> Undefined, ignoreListed |-> Undefined,
     tokens |-> [t |-> "undefined", v |-> << >>], isObject |-> TRUE]


\* a null inside a chains/requests/operations array
NullElement == [NoParams EXCEPT !.isObject = FALSE]

(***************************************************************************)
(* Upstream URLs, kept as their parts.                                     *)
(***************************************************************************)
NoUrl ==
    [base |-> "", path |-> "", chainId |-> "", address |-> Empty,
     arg1 |-> "", arg2 |-> "", limit |-> Empty, offset |-> Empty,
     method |-> "GET", tokens |-> << >>]

(***************************************************************************)
(* Error messages: the fixed text, the upstream status it wraps (0 when    *)
(* none) and the interpolated argument.                                    *)
(***************************************************************************)
Msg(text) == [text |-> text, status |-> 0, arg |-> ""]
MsgArg(text, arg) == [text |-> text, status |-> 0, arg |-> arg]
MsgStatus(text, status) == [text |-> text, status |-> status, arg |-> ""]
NoMsg == Msg("")

\* what the validation of a request or of a batch element decides
Reject(text) == [kind |-> "reject", error |-> Msg(text), plan |-> << >>]
RejectArg(text, arg) == [kind |-> "reject", error |-> MsgArg(text, arg), plan |-> << >>]
Forward(urls) == [kind |-> "fetch", error |-> NoMsg, plan |-> urls]
Throws == [kind |-> "throw", error |-> Msg("TypeError"), plan |-> << >>]

(***************************************************************************)
(* Gas price route: src/frontend/src/app/api/gasprice/route.tsx            *)
(***************************************************************************)
GASPRICE_BASE_URL == "https://api.1inch.dev/gas-price/v1.4"
GASPRICE_SUPPORTED_CHAINS ==
    [ethereum |-> "1", bsc |-> "56", polygon |-> "137", optimism |-> "10",
     arbitrum |-> "42161", gnosis |-> "100", avalanche |-> "43114",
     fantom |-> "250", klaytn |-> "8217", aurora |-> "1313161554",
     zksync |-> "324"]

\* SUPPORTED_CHAINS[chain as keyof typeof SUPPORTED_CHAINS]
Lookup(table, chain) == IF chain \in DOMAIN table THEN table[chain] ELSE Undefined

\* chainId || SUPPORTED_CHAINS[chain] || '1'
FinalChainId(table, chainId, chain) == OrElse(chainId, OrElse(Lookup(table, chain), "1"))

GaspriceUrl(chainId) ==
    [NoUrl EXCEPT !.base = GASPRICE_BASE_URL, !.chainId = chainId]

\* GET, up to the upstream request
GaspriceGET(q) ==
    LET chain   == OrElse(q.chain, "ethereum")
        chainId == FinalChainId(GASPRICE_SUPPORTED_CHAINS, q.chainId, chain)
    IN  Forward(<< GaspriceUrl(chainId) >>)

\* POST, one element of chains, up to the upstream request
GaspriceElement(el) ==
    IF ~el.isObject THEN Throws
    ELSE Forward(<< GaspriceUrl(
             FinalChainId(GASPRICE_SUPPORTED_CHAINS, el.chainId, el.chain)) >>)

(***************************************************************************)
(* NFT route: src/unnamed/part_003                                         *)
(***************************************************************************)
NFT_BASE_URL == "https://api.1inch.dev/nft/v1/byaddress"
MinLimit == 1
MaxLimit == 100
MinOffset == 0
DefaultLimit == << "5", "0" >>
DefaultOffset == << "0" >>

NftUrl(address, chainIds, limit, offset) ==
    [NoUrl EXCEPT !.base = NFT_BASE_URL, !.address = address,
                  !.chainId = chainIds, !.limit = limit, !.offset = offset]

\* GET, up to the upstream request
NftGET(q) ==
    LET address == q.address
        chainIds == OrElse(q.chainIds, "1")
        limit == OrElseChars(q.limit, DefaultLimit)
        offset == OrElseChars(q.offset, DefaultOffset)
        numericLimit  == parseInt(limit)
        numericOffset == parseInt(offset)
    IN  IF Blank(address) THEN Reject("Address parameter is required")
        ELSE IF ~IsAddress(address) THEN Reject("Invalid wallet address format")
        ELSE IF numericLimit.nan \/ numericLimit.n < MinLimit \/ numericLimit.n > MaxLimit
             THEN Reject("Limit must be a number between 1 and 100")
        ELSE IF numericOffset.nan \/ numericOffset.n < MinOffset
             THEN Reject("Offset must be a non-negative number")
        ELSE Forward(<< NftUrl(address, chainIds, limit, offset) >>)

\* POST, one element of requests, up to the upstream request; the
\* destructuring defaults apply to an absent field
NftElement(el) ==
    LET address == el.address
        chainIds == OrElse(el.chainIds, "1")
        limit == OrElseChars(el.limit, DefaultLimit)
        offset == OrElseChars(el.offset, DefaultOffset)
        numericLimit  == parseInt(limit)
        numericOffset == parseInt(offset)
    IN  IF ~el.isObject THEN Throws
        ELSE IF Blank(address) THEN Reject("Address is required for each request")
        ELSE IF ~IsAddress(address) THEN Reject("Invalid wallet address format")
        ELSE IF numericLimit.nan \/ numericLimit.n < MinLimit \/ numericLimit.n > MaxLimit
             THEN Reject("Limit must be a number between 1 and 100")
        ELSE IF numericOffset.nan \/ numericOffset.n < MinOffset
             THEN Reject("Offset must be a non-negative number")
        ELSE Forward(<< NftUrl(address, chainIds, limit, offset) >>)

\* the pagination metadata of transformedData
NoPage == [limit |-> 0, offset |-> 0, totalItems |-> 0, hasMore |-> FALSE,
           nextOffset |-> 0]
Pagination(limit, offset, data) ==
    LET numericLimit  == parseInt(limit).n
        numericOffset == parseInt(offset).n
        \* data.assets?.length
        length == IF data.assets.t = "array" THEN Len(data.assets.v) ELSE -1
    IN  [limit |-> numericLimit,
         offset |-> numericOffset,
         totalItems |-> IF length > 0 THEN length ELSE 0,
         hasMore |-> length = numericLimit,
         nextOffset |-> numericOffset + numericLimit]

(***************************************************************************)
(* Wallet history route: src/unnamed/part_004                              *)
(***************************************************************************)
HISTORY_BASE_URL == "https://api.1inch.dev/history/v2.0/history"
HistoryDefaultLimit == << "1", "0" >>

\* `${BASE_URL}/${address}/events?chainId=${1}&limit=${limit}`
HistoryUrlChainId(chainId) == "1"
HistoryUrl(address, chainId, limit) ==
    [NoUrl EXCEPT !.base = HISTORY_BASE_URL, !.path = "events",
                  !.address = address, !.chainId = HistoryUrlChainId(chainId),
                  !.limit = limit]

HistoryGET(q) ==
    LET limit   == OrElseChars(q.limit, HistoryDefaultLimit)
        chainId == OrElse(q.chainId, "1")
    IN  IF Blank(q.address) THEN Reject("wallet address is Required")
        ELSE Forward(<< HistoryUrl(q.address, chainId, limit) >>)

(***************************************************************************)
(* Portfolio route: src/unnamed/part_005                                   *)
(***************************************************************************)
PORTFOLIO_BASE_URL == "https://api.1inch.dev/portfolio/portfolio/v4/overview/erc20"

PortfolioUrl(path, addresses, chainId, fromTimestamp, toTimestamp) ==
    [NoUrl EXCEPT !.base = PORTFOLIO_BASE_URL, !.path = path,
                  !.address = addresses, !.chainId = chainId,
                  !.arg1 = fromTimestamp, !.arg2 = toTimestamp]

\* the portfolio GET with the sub-requests of action all in another order
PortfolioGET_DetailsFirst(q) ==
    LET action == q.action
        addresses == q.addresses
        chainId == OrElse(q.chainId, "1")
        fromTimestamp == q.fromTimestamp
        toTimestamp == q.toTimestamp
        current == PortfolioUrl("current_value", addresses, chainId, "", "")
        details == PortfolioUrl("details", addresses, chainId, "", "")
        pnl     == PortfolioUrl("profit_and_loss", addresses, chainId,
                                fromTimestamp, toTimestamp)
    IN  IF Missing(action)
        THEN Reject("Action parameter is required. Use: currentValue, profitAndLoss, tokenDetails, or all")
        ELSE IF Blank(addresses) THEN Reject("Wallet addresses parameter is required")
        ELSE IF ~validAddresses(addresses) THEN Reject("Invalid wallet address format")
        ELSE CASE action = "currentValue" -> Forward(<< current >>)
               [] action = "profitAndLoss" ->
                    IF Missing(fromTimestamp) \/ Missing(toTimestamp)
                    THEN Reject("fromTimestamp and toTimestamp parameters are required for profitAndLoss action")
                    ELSE Forward(<< pnl >>)
               [] action = "tokenDetails" -> Forward(<< details >>)
               [] action = "all" ->
                    IF ~Missing(fromTimestamp) /\ ~Missing(toTimestamp)
                    THEN Forward(<< details, current, pnl >>)
                    ELSE Forward(<< details, current >>)
               [] OTHER -> Reject("Invalid action. Use: currentValue, profitAndLoss, tokenDetails, or all")

\* GET, up to the first upstream request; for action all the plan holds
\* the sub-requests in the order the code sends them
PortfolioGET(q) ==
    LET action == q.action
        addresses == q.addresses
        chainId == OrElse(q.chainId, "1")
        fromTimestamp == q.fromTimestamp
        toTimestamp == q.toTimestamp
        current == PortfolioUrl("current_value", addresses, chainId, "", "")
        details == PortfolioUrl("details", addresses, chainId, "", "")
        pnl     == PortfolioUrl("profit_and_loss", addresses, chainId,
                                fromTimestamp, toTimestamp)
    IN  IF Missing(action)
        THEN Reject("Action parameter is required. Use: currentValue, profitAndLoss, tokenDetails, or all")
        ELSE IF Blank(addresses) THEN Reject("Wallet addresses parameter is required")
        ELSE IF ~validAddresses(addresses) THEN Reject("Invalid wallet address format")
        ELSE CASE action = "currentValue" -> Forward(<< current >>)
               [] action = "profitAndLoss" ->
                    IF Missing(fromTimestamp) \/ Missing(toTimestamp)
                    THEN Reject("fromTimestamp and toTimestamp parameters are required for profitAndLoss action")
                    ELSE Forward(<< pnl >>)
               [] action = "tokenDetails" -> Forward(<< details >>)
               [] action = "all" ->
                    IF ~Missing(fromTimestamp) /\ ~Missing(toTimestamp)
                    THEN Forward(<< current, details, pnl >>)
                    ELSE Forward(<< current, details >>)
               [] OTHER -> Reject("Invalid action. Use: currentValue, profitAndLoss, tokenDetails, or all")

\* POST, one element of operations, up to the upstream request
PortfolioElement(el) ==
    LET action == el.action
        addresses == el.addresses
        chainId == IF el.chainId = Undefined THEN "1" ELSE el.chainId
        fromTimestamp == el.fromTimestamp
        toTimestamp == el.toTimestamp
    IN  IF ~el.isObject THEN Throws
        ELSE IF Blank(addresses) THEN Reject("addresses is required for all operations")
        ELSE CASE action = "currentValue" ->
                    Forward(<< PortfolioUrl("current_value", addresses, chainId, "", "") >>)
               [] action = "profitAndLoss" ->
                    IF Missing(fromTimestamp) \/ Missing(toTimestamp)
                    THEN Reject("fromTimestamp and toTimestamp are required for profitAndLoss")
                    ELSE Forward(<< PortfolioUrl("profit_and_loss", addresses, chainId,
                                                 fromTimestamp, toTimestamp) >>)
               [] action = "tokenDetails" ->
                    Forward(<< PortfolioUrl("details", addresses, chainId, "", "") >>)
               [] OTHER -> RejectArg("Invalid action", action)

(***************************************************************************)
(* Token route: src/unnamed/part_007                                       *)
(***************************************************************************)
TOKEN_BASE_URL == "https://api.1inch.dev/token"
TOKEN_SUPPORTED_CHAINS ==
    [ethereum |-> "1", bsc |-> "56", polygon |-> "137", optimism |-> "10",
     arbitrum |-> "42161", gnosis |-> "100", avalanche |-> "43114",
     fantom |-> "250", klaytn |-> "8217", aurora |-> "1313161554"]
TokenDefaultLimit == << "1", "0" >>

TokenUrl(path, chainId, addresses, arg1, arg2, limit) ==
    [NoUrl EXCEPT !.base = TOKEN_BASE_URL, !.path = path, !.chainId = chainId,
                  !.address = addresses, !.arg1 = arg1, !.arg2 = arg2,
                  !.limit = limit]

\* GET, up to the upstream request
TokenGET(q) ==
    LET action == OrElse(q.action, "all")
        chain == OrElse(q.chain, "ethereum")
        query == q.query
        addresses == q.addresses
        limit == OrElseChars(q.limit, TokenDefaultLimit)
        ignoreListed == OrElse(q.ignoreListed, "false")
        provider == OrElse(q.provider, "1inch")
        chainId == FinalChainId(TOKEN_SUPPORTED_CHAINS, q.chainId, chain)
    IN  CASE action = "search" ->
                IF Missing(query)
                THEN Reject("Query parameter is required for search action")
                ELSE Forward(<< TokenUrl("search", chainId, Empty, query, ignoreListed, limit) >>)
          [] action = "custom" ->
                IF Blank(addresses)
                THEN Reject("Addresses parameter is required for custom action")
                ELSE IF ~validAddresses(addresses)
                THEN Reject("Invalid token address format")
                ELSE Forward(<< TokenUrl("custom", chainId, addresses, "", "", Empty) >>)
          [] action = "all" ->
                Forward(<< TokenUrl("", chainId, Empty, provider, "", Empty) >>)
          [] action = "tokenList" ->
                Forward(<< TokenUrl("token-list", chainId, Empty, provider, "", Empty) >>)
          [] OTHER -> Reject("Invalid action. Use: search, custom, all, or tokenList")

\* POST, one element of operations, up to the upstream request
TokenElement(el) ==
    LET action == el.action
        chain == el.chain
        query == el.query
        addresses == el.addresses
        limit == OrElseChars(el.limit, TokenDefaultLimit)
        ignoreListed == IF el.ignoreListed = Undefined THEN "false" ELSE el.ignoreListed
        provider == IF el.provider = Undefined THEN "1inch" ELSE el.provider
        finalChainId == FinalChainId(TOKEN_SUPPORTED_CHAINS, el.chainId, chain)
    IN  IF ~el.isObject THEN Throws
        ELSE CASE action = "search" ->
                IF Missing(query)
                THEN Reject("Query is required for search action")
                ELSE Forward(<< TokenUrl("search", finalChainId, Empty, query, ignoreListed, limit) >>)
          [] action = "custom" ->
                IF Blank(addresses)
                THEN Reject("Addresses are required for custom action")
                ELSE IF ~validAddresses(addresses)
                THEN Reject("Invalid token address format")
                ELSE Forward(<< TokenUrl("custom", finalChainId, addresses, "", "", Empty) >>)
          [] action = "all" ->
                Forward(<< TokenUrl("", finalChainId, Empty, provider, "", Empty) >>)
          [] action = "tokenList" ->
                Forward(<< TokenUrl("token-list", finalChainId, Empty, provider, "", Empty) >>)
          [] OTHER -> RejectArg("Invalid action", action)

(***************************************************************************)
(* Spot price route: src/unnamed/part_006                                  *)
(***************************************************************************)
SPOTPRICE_BASE_URL == "https://api.1inch.dev/price/v1.1"
SPOTPRICE_SUPPORTED_CHAINS ==
    [ethereum |-> "1", bsc |-> "56", polygon |-> "137", optimism |-> "10",
     arbitrum |-> "42161", gnosis |-> "100", avalanche |-> "43114",
     fantom |-> "250"]

\* a JSON value that is read as an array: absent, not an array, or an array
NoArray == [t |-> "undefined", v |-> << >>]
NotArray == [t |-> "string", v |-> << >>]
Array(v) == [t |-> "array", v |-> v]
\* !x alone, without Array.isArray
NotAnArrayFalsyOnly(x) == x.t = "undefined"
\* !x || !Array.isArray(x)
NotAnArray(x) == x.t # "array"

SpotpriceUrl(chainId, addresses) ==
    [NoUrl EXCEPT !.base = SPOTPRICE_BASE_URL, !.chainId = chainId,
                  !.address = addresses]
SpotpricePostUrl(chainId, tokens) ==
    [NoUrl EXCEPT !.base = SPOTPRICE_BASE_URL, !.chainId = chainId,
                  !.method = "POST", !.tokens = tokens]

\* GET, up to the upstream request
SpotpriceGET(q) ==
    LET action == OrElse(q.action, "whitelisted")
        chain == OrElse(q.chain, "ethereum")
        addresses == q.addresses
        chainId == FinalChainId(SPOTPRICE_SUPPORTED_CHAINS, q.chainId, chain)
    IN  CASE action = "whitelisted" -> Forward(<< SpotpriceUrl(chainId, Empty) >>)
          [] action = "addresses" ->
                IF Blank(addresses)
                THEN Reject("Addresses parameter is required for addresses action")
                ELSE IF ~validAddresses(addresses)
                THEN Reject("Invalid token address format")
                ELSE Forward(<< SpotpriceUrl(chainId, addresses) >>)
          [] OTHER -> Reject("Invalid action. Use: whitelisted or addresses")

\* POST with action requested, up to the upstream request
SpotpriceRequested(body) ==
    LET chainId == IF body.chainId = Undefined THEN "1" ELSE body.chainId
        tokens == body.tokens
    IN  IF NotAnArray(tokens) THEN Reject("Tokens array is required for requested action")
        ELSE IF ~(\A k \in 1..Len(tokens.v) : IsAddress(tokens.v[k]))
        THEN Reject("Invalid token address format")
        ELSE Forward(<< SpotpricePostUrl(chainId, tokens.v) >>)

\* POST with action batch, one element of chains, up to the upstream request
SpotpriceElement(el) ==
    LET chain == el.chain
        reqTokens == el.tokens
        addresses == el.addresses
        finalChainId == FinalChainId(SPOTPRICE_SUPPORTED_CHAINS, el.chainId, chain)
    IN  IF ~el.isObject THEN Throws
        ELSE IF ~NotAnArray(reqTokens)
        THEN Forward(<< SpotpricePostUrl(finalChainId, reqTokens.v) >>)
        ELSE IF ~Blank(addresses)
        THEN Forward(<< SpotpriceUrl(finalChainId, addresses) >>)
        ELSE Forward(<< SpotpriceUrl(finalChainId, Empty) >>)

(***************************************************************************)
(* Trace route: src/unnamed/part_008                                       *)
(***************************************************************************)
TRACE_BASE_URL == "https://api.1inch.dev/traces/v1.0/chain"

TraceUrl(path, chain, blockNumber, txHash) ==
    [NoUrl EXCEPT !.base = TRACE_BASE_URL, !.path = path, !.chainId = chain,
                  !.arg1 = blockNumber, !.arg2 = txHash]

\* GET, up to the upstream request
TraceGET(q) ==
    LET action == q.action
        chain == OrElse(q.chain, "1")
        blockNumber == q.blockNumber
        txHash == q.txHash
    IN  IF Missing(action)
        THEN Reject("Action parameter is required. Use: syncedInterval, blockTrace, or txTrace")
        ELSE CASE action = "syncedInterval" ->
                    Forward(<< TraceUrl("synced-interval", chain, "", "") >>)
               [] action = "blockTrace" ->
                    IF Missing(blockNumber)
                    THEN Reject("blockNumber parameter is required for blockTrace action")
                    ELSE Forward(<< TraceUrl("block-trace", chain, blockNumber, "") >>)
               [] action = "txTrace" ->
                    IF Missing(blockNumber) \/ Missing(txHash)
                    THEN Reject("blockNumber and txHash parameters are required for txTrace action")
                    ELSE Forward(<< TraceUrl("block-trace/tx-hash", chain, blockNumber, txHash) >>)
               [] OTHER -> Reject("Invalid action. Use: syncedInterval, blockTrace, or txTrace")

\* POST, one element of operations, up to the upstream request
TraceElement(el) ==
    LET action == el.action
        chain == IF el.chain = Undefined THEN "1" ELSE el.chain
        blockNumber == el.blockNumber
        txHash == el.txHash
    IN  IF ~el.isObject THEN Throws
        ELSE CASE action = "syncedInterval" ->
                    Forward(<< TraceUrl("synced-interval", chain, "", "") >>)
               [] action = "blockTrace" ->
                    IF Missing(blockNumber)
                    THEN Reject("blockNumber is required for blockTrace")
                    ELSE Forward(<< TraceUrl("block-trace", chain, blockNumber, "") >>)
               [] action = "txTrace" ->
                    IF Missing(blockNumber) \/ Missing(txHash)
                    THEN Reject("blockNumber and txHash are required for txTrace")
                    ELSE Forward(<< TraceUrl("block-trace/tx-hash", chain, blockNumber, txHash) >>)
               [] OTHER -> RejectArg("Invalid action", action)

(***************************************************************************)
(* Domain route: src/unnamed/part_009                                      *)
(***************************************************************************)
DOMAIN_BASE_URL == "https://api.1inch.dev/domains/v2.0"

DomainUrl(path, name) ==
    [NoUrl EXCEPT !.base = DOMAIN_BASE_URL, !.path = path, !.address = name]

\* GET, up to the upstream request
DomainGET(q) ==
    LET action == q.action
        domain == q.domain
        address == q.address
    IN  IF Missing(action)
        THEN Reject("Action parameter is required. Use: lookup, reverseLookup, or providersData")
        ELSE CASE action = "lookup" ->
                    IF Blank(domain)
                    THEN Reject("Domain parameter is required for lookup action")
                    ELSE IF ~Includes(domain, ".") THEN Reject("Invalid domain format")
                    ELSE Forward(<< DomainUrl("lookup", domain) >>)
               [] action = "reverseLookup" ->
                    IF Blank(address)
                    THEN Reject("Address parameter is required for reverseLookup action")
                    ELSE IF ~IsAddress(address) THEN Reject("Invalid wallet address format")
                    ELSE Forward(<< DomainUrl("reverse-lookup", address) >>)
               [] action = "providersData" ->
                    Forward(<< DomainUrl("get-providers-data-with-avatar", Empty) >>)
               [] OTHER -> Reject("Invalid action. Use: lookup, reverseLookup, or providersData")

\* POST, one element of operations, up to the upstream request
DomainElement(el) ==
    LET action == el.action
        domain == el.domain
        address == el.address
    IN  IF ~el.isObject THEN Throws
        ELSE CASE action = "lookup" ->
                    IF Blank(domain) THEN Reject("Domain is required for lookup action")
                    ELSE IF ~Includes(domain, ".") THEN Reject("Invalid domain format")
                    ELSE Forward(<< DomainUrl("lookup", domain) >>)
               [] action = "reverseLookup" ->
                    IF Blank(address)
                    THEN Reject("Address is required for reverseLookup action")
                    ELSE IF ~IsAddress(address) THEN Reject("Invalid wallet address format")
                    ELSE Forward(<< DomainUrl("reverse-lookup", address) >>)
               [] action = "providersData" ->
                    Forward(<< DomainUrl("get-providers-data-with-avatar", Empty) >>)
               [] OTHER -> RejectArg("Invalid action", action)

(***************************************************************************)
(* The routes and what each one dispatches to.                             *)
(***************************************************************************)
Routes == {"gasprice", "nft", "history", "portfolio", "token", "spotprice",
           "trace", "domain"}
\* the wallet history route exports no POST
BatchRoutes == Routes \ {"history"}

\* GET of a route, up to the first upstream request
GetValidate(route, q) ==
    CASE route = "gasprice"  -> GaspriceGET(q)
      [] route = "nft"       -> NftGET(q)
      [] route = "history"   -> HistoryGET(q)
      [] route = "portfolio" -> PortfolioGET(q)
      [] route = "token"     -> TokenGET(q)
      [] route = "spotprice" -> SpotpriceGET(q)
      [] route = "trace"     -> TraceGET(q)
      [] route = "domain"    -> DomainGET(q)

\* the body of the for loop of POST for one element, up to the upstream request
ElementValidate(route, el) ==
    CASE route = "gasprice"  -> GaspriceElement(el)
      [] route = "nft"       -> NftElement(el)
      [] route = "portfolio" -> PortfolioElement(el)
      [] route = "token"     -> TokenElement(el)
      [] route = "spotprice" -> SpotpriceElement(el)
      [] route = "trace"     -> TraceElement(el)
      [] route = "domain"    -> DomainElement(el)

\* the sleep after a successful element, in milliseconds
GASPRICE_DELAY_MS == 100
RATE_LIMIT_DELAY_MS == 1000
Delay(route) == IF route = "gasprice" THEN GASPRICE_DELAY_MS ELSE RATE_LIMIT_DELAY_MS

(***************************************************************************)
(* Entries of the results array of a batch.                                *)
(***************************************************************************)
Unknown == << "u", "n", "k", "n", "o", "w", "n" >>
NoEntry ==
    [success |-> FALSE, action |-> Undefined, chainId |-> Undefined,
     chain |-> Undefined, address |-> Empty, domain |-> Empty,
     blockNumber |-> Undefined, txHash |-> Undefined, error |-> NoMsg,
     hasData |-> FALSE, page |-> NoPage]

\* results.push({ success: true, ... }) of each route
SuccessEntry(route, el, data) ==
    LET e == [NoEntry EXCEPT !.success = TRUE, !.hasData = TRUE]
    IN  CASE route = "gasprice" ->
                [e EXCEPT !.chainId = FinalChainId(GASPRICE_SUPPORTED_CHAINS, el.chainId, el.chain),
                          !.chain = OrElse(el.chain, "ethereum")]
          [] route = "nft" ->
                [e EXCEPT !.address = el.address, !.chainId = OrElse(el.chainIds, "1"),
                          !.page = Pagination(OrElseChars(el.limit, DefaultLimit),
                                              OrElseChars(el.offset, DefaultOffset),
                                              data)]
          [] route = "portfolio" ->
                [e EXCEPT !.action = el.action, !.address = el.addresses,
                          !.chainId = IF el.chainId = Undefined THEN "1" ELSE el.chainId]
          [] route = "token" ->
                [e EXCEPT !.action = el.action,
                          !.chainId = FinalChainId(TOKEN_SUPPORTED_CHAINS, el.chainId, el.chain),
                          !.chain = OrElse(el.chain, "ethereum"),
                          !.address = el.addresses]
          [] route = "spotprice" ->
                [e EXCEPT !.chainId = FinalChainId(SPOTPRICE_SUPPORTED_CHAINS, el.chainId, el.chain),
                          !.chain = OrElse(el.chain, "ethereum")]
          [] route = "trace" ->
                [e EXCEPT !.action = el.action,
                          !.chain = IF el.chain = Undefined THEN "1" ELSE el.chain,
                          !.blockNumber = el.blockNumber, !.txHash = el.txHash]
          [] route = "domain" ->
                [e EXCEPT !.action = el.action, !.domain = el.domain,
                          !.address = el.address]

\* results.push({ success: false, ..., error }) of each route
FailureEntry(route, el, error) ==
    LET e == [NoEntry EXCEPT !.success = FALSE, !.error = error]
    IN  CASE route = "gasprice" ->
                [e EXCEPT !.chainId = OrElse(el.chainId, "1"),
                          !.chain = OrElse(el.chain, "ethereum")]
          [] route = "nft" ->
                [e EXCEPT !.address = OrElseChars(el.address, Unknown),
                          !.chainId = OrElse(el.chainIds, "1")]
          [] route = "portfolio" ->
                [e EXCEPT !.action = el.action, !.address = el.addresses,
                          !.chainId = IF el.chainId = Undefined THEN "1" ELSE el.chainId]
          [] route = "token" ->
                [e EXCEPT !.action = el.action,
                          !.chainId = OrElse(el.chainId, "1"),
                          !.chain = OrElse(el.chain, "ethereum")]
          [] route = "spotprice" ->
                [e EXCEPT !.chainId = OrElse(el.chainId, "1"),
                          !.chain = OrElse(el.chain, "ethereum")]
          [] route = "trace" ->
                [e EXCEPT !.action = el.action,
                          !.chain = IF el.chain = Undefined THEN "1" ELSE el.chain,
                          !.blockNumber = el.blockNumber, !.txHash = el.txHash]
          [] route = "domain" ->
                [e EXCEPT !.action = el.action, !.domain = el.domain,
                          !.address = el.address]

(***************************************************************************)
(* The for loop of a batch POST, run from element k until it awaits an     *)
(* upstream request, throws out of the loop, or ends.  The element is      *)
(* destructured before the try block, so a null element throws to the      *)
(* handler's outer catch; what the try block throws is pushed to results.  *)
(***************************************************************************)
RECURSIVE RunLoop(_, _, _, _)
RunLoop(route, list, k, res) ==
    IF k > Len(list) THEN [kind |-> "end", results |-> res, i |-> k, url |-> NoUrl]
    ELSE LET v == ElementValidate(route, list[k])
         IN  CASE v.kind = "throw" ->
                    [kind |-> "throw", results |-> res, i |-> k, url |-> NoUrl]
               [] v.kind = "reject" ->
                    RunLoop(route, list, k + 1,
                            Append(res, FailureEntry(route, list[k], v.error)))
               [] v.kind = "fetch" ->
                    [kind |-> "fetch", results |-> res, i |-> k, url |-> v.plan[1]]

(***************************************************************************)
(* Upstream answers.                                                       *)
(***************************************************************************)
\* the HTTP statuses the upstream answers with, and its round-trip times
UpstreamStatuses == {200, 401, 429, 500}
UpstreamLatencies == {40}

\* one item of the history API, and the bodies it answers with
Item(id, status) == [id |-> id, status |-> status]
NoBody == [items |-> NoArray, assets |-> NoArray]
HistoryBodies ==
    {NoBody, [NoBody EXCEPT !.items = Array(<< >>)],
     [NoBody EXCEPT !.items = Array(<< Item("e1", "pending") >>)],
     [NoBody EXCEPT !.items = Array(<< Item("e1", Undefined), Item("e2", "failed") >>)]}
\* the bodies the NFT API answers with: no assets, or one or two of them
NftBodies ==
    {NoBody, [NoBody EXCEPT !.assets = Array(<< "nft1" >>)],
     [NoBody EXCEPT !.assets = Array(<< "nft1", "nft2" >>)]}
Bodies(route) ==
    IF route = "history" THEN HistoryBodies
    ELSE IF route = "nft" THEN NftBodies
    ELSE {NoBody}

\* how a fetch settles: it rejects (no answer), or resolves with a status
UpstreamOutcomes(route) ==
    {[rejected |-> FALSE, status |-> 200, body |-> b] : b \in Bodies(route)}
    \cup {[rejected |-> FALSE, status |-> st, body |-> NoBody] :
             st \in UpstreamStatuses \ {200}}
    \cup {[rejected |-> TRUE, status |-> -1, body |-> NoBody]}

\* response.ok
Ok(status) == status >= 200 /\ status <= 299

\* makeRequest without its `if (!response.ok) throw`
makeRequestUnchecked(outcome) ==
    IF outcome.rejected
    THEN [threw |-> TRUE, error |-> Msg("fetch failed"), data |-> NoBody]
    ELSE [threw |-> FALSE, error |-> NoMsg, data |-> outcome.body]

\* makeRequest after the fetch settled: the JSON it returns or the Error it
\* throws
makeRequest(outcome) ==
    IF outcome.rejected
    THEN [threw |-> TRUE, error |-> Msg("fetch failed"), data |-> NoBody]
    ELSE IF ~Ok(outcome.status)
    THEN [threw |-> TRUE, error |-> MsgStatus("API request failed", outcome.status),
          data |-> NoBody]
    ELSE [threw |-> FALSE, error |-> NoMsg, data |-> outcome.body]

\* the request fetch sends: headers: { 'Authorization': `Bearer ${process.env.ONEINCH_API_KEY}` }
Authorization(key) == [scheme |-> "Bearer", token |-> key]
UpstreamRequest(url, key, at, elem) ==
    [url |-> url, authorization |-> Authorization(key), sentAt |-> at,
     doneAt |-> -1, status |-> -1, body |-> NoBody, elem |-> elem]

(***************************************************************************)
(* Responses of the handlers.                                              *)
(***************************************************************************)
\* the data field of a response: absent, or which parts of the portfolio
\* action all it holds (a part that is not held is null)
NoData == [currentValue |-> FALSE, tokenDetails |-> FALSE, profitAndLoss |-> FALSE]
NoResponse ==
    [status |-> 0, success |-> FALSE, error |-> NoMsg, details |-> NoMsg,
     hasResults |-> FALSE, results |-> << >>, total |-> 0, successful |-> 0,
     failed |-> 0, chainId |-> Undefined, transactions |-> << >>,
     txTotal |-> 0, hasData |-> FALSE, data |-> NoData, page |-> NoPage]

\* NextResponse.json({ error }, { status })
ErrorResponse(status, error) ==
    [NoResponse EXCEPT !.status = status, !.error = error]

\* the catch block of a handler: { error, details: error.message }, status 500
GetFailText(route) ==
    CASE route = "gasprice"  -> "Failed to fetch gas prices"
      [] route = "nft"       -> "Failed to fetch NFT data"
      [] route = "history"   -> "Failed to fetch wallet transactions"
      [] route = "portfolio" -> "Failed to fetch portfolio data"
      [] route = "token"     -> "Failed to fetch token data"
      [] route = "spotprice" -> "Failed to fetch spot prices"
      [] route = "trace"     -> "Failed to fetch trace data"
      [] route = "domain"    -> "Failed to fetch domain data"
PostFailText(route) ==
    CASE route = "gasprice"  -> "Failed to process batch gas price requests"
      [] route = "nft"       -> "Failed to process batch NFT requests"
      [] route = "portfolio" -> "Failed to process batch operations"
      [] route = "token"     -> "Failed to process batch token operations"
      [] route = "spotprice" -> "Failed to process spot price request"
      [] route = "trace"     -> "Failed to process batch operations"
      [] route = "domain"    -> "Failed to process batch domain operations"
CatchResponse(text, error) ==
    [NoResponse EXCEPT !.status = 500, !.error = Msg(text), !.details = error]

\* results.filter(r => r.success).length
RECURSIVE CountSuccess(_)
CountSuccess(res) ==
    IF res = << >> THEN 0
    ELSE (IF Head(res).success THEN 1 ELSE 0) + CountSuccess(Tail(res))
RECURSIVE CountFailed(_)
CountFailed(res) ==
    IF res = << >> THEN 0
    ELSE (IF ~Head(res).success THEN 1 ELSE 0) + CountFailed(Tail(res))

\* the summary with every entry counted as successful
BatchResponse_CountsAll(list, res) ==
    [NoResponse EXCEPT !.status = 200, !.success = TRUE, !.hasResults = TRUE,
                       !.results = res, !.total = Len(list),
                       !.successful = Len(res),
                       !.failed = CountFailed(res)]

\* the summary a batch POST ends with
BatchResponse(list, res) ==
    [NoResponse EXCEPT !.status = 200, !.success = TRUE, !.hasResults = TRUE,
                       !.results = res, !.total = Len(list),
                       !.successful = CountSuccess(res),
                       !.failed = CountFailed(res)]

\* the transactions without the `|| 'completed'` of the status
Transactions_NoDefault(body, chainId) ==
    IF body.items.t # "array" THEN << >>
    ELSE [k \in 1..Len(body.items.v) |->
            [id |-> body.items.v[k].id,
             status |-> body.items.v[k].status,
             chainId |-> chainId]]

\* data.items?.map(item => ({ ..., status: item.status || 'completed', chainId })) || []
Transactions(body, chainId) ==
    IF body.items.t # "array" THEN << >>
    ELSE [k \in 1..Len(body.items.v) |->
            [id |-> body.items.v[k].id,
             status |-> OrElse(body.items.v[k].status, "completed"),
             chainId |-> chainId]]

\* the 200 response of a single request
SuccessResponse(route, q, data) ==
    LET chainId == OrElse(q.chainId, "1")
        transformedTransactions == Transactions(data, chainId)
    IN  IF route = "history"
        THEN [NoResponse EXCEPT !.status = 200, !.success = TRUE,
                                !.chainId = chainId,
                                !.transactions = transformedTransactions,
                                !.txTotal = Len(transformedTransactions)]
        ELSE IF route = "portfolio" /\ q.action = "all"
        THEN \* data = { currentValue, tokenDetails, profitAndLoss }
             [NoResponse EXCEPT !.status = 200, !.success = TRUE,
                                !.hasData = TRUE,
                                !.data = [currentValue |-> TRUE,
                                          tokenDetails |-> TRUE,
                                          profitAndLoss |->
                                              ~Missing(q.fromTimestamp)
                                              /\ ~Missing(q.toTimestamp)]]
        ELSE IF route = "nft"
        THEN [NoResponse EXCEPT !.status = 200, !.success = TRUE, !.hasData = TRUE,
                                !.page = Pagination(OrElseChars(q.limit, DefaultLimit),
                                                    OrElseChars(q.offset, DefaultOffset),
                                                    data)]
        ELSE [NoResponse EXCEPT !.status = 200, !.success = TRUE, !.hasData = TRUE]

\* the wallet history route after fetch settled with a non-2xx status
HistoryFailure(status) ==
    IF status = 401 THEN ErrorResponse(401, Msg("Invalid API key"))
    ELSE IF status = 429 THEN ErrorResponse(429, Msg("Rate limit exceeded"))
    ELSE CatchResponse(GetFailText("history"), MsgStatus("1inch API error", status))

(***************************************************************************)
(* Requests.                                                               *)
(***************************************************************************)
ApiKeys == {Undefined, "sk-live"}
TimestampSamples == {Undefined, "2023-01-01"}

\* the query strings sampled for the GET of each route
GetParams(route) ==
    CASE route = "gasprice" ->
            {[NoParams EXCEPT !.chain = c, !.chainId = id] :
                c \in ChainSamples, id \in ChainIdSamples}
      [] route = "nft" ->
            {[NoParams EXCEPT !.address = a, !.limit = l, !.offset = o] :
                a \in AddressSamples, l \in LimitSamples, o \in OffsetSamples}
      [] route = "history" ->
            {[NoParams EXCEPT !.address = a, !.chainId = id] :
                a \in AddressSamples, id \in ChainIdSamples}
      [] route = "portfolio" ->
            {[NoParams EXCEPT !.action = act, !.addresses = a,
                              !.fromTimestamp = f, !.toTimestamp = t] :
                act \in {Undefined, "currentValue", "profitAndLoss", "tokenDetails",
                         "all", "swap"},
                a \in AddressesSamples, f \in TimestampSamples, t \in TimestampSamples}
      [] route = "token" ->
            {[NoParams EXCEPT !.action = act, !.addresses = a, !.query = qu,
                              !.chain = c] :
                act \in {Undefined, "search", "custom", "all", "tokenList", "swap"},
                a \in AddressesSamples, qu \in {Undefined, "1inch"},
                c \in {Undefined, "polygon"}}
      [] route = "spotprice" ->
            {[NoParams EXCEPT !.action = act, !.addresses = a, !.chainId = id] :
                act \in {Undefined, "whitelisted", "addresses", "swap"},
                a \in AddressesSamples, id \in ChainIdSamples}
      [] route = "trace" ->
            {[NoParams EXCEPT !.action = act, !.blockNumber = b, !.txHash = h] :
                act \in {Undefined, "syncedInterval", "blockTrace", "txTrace", "swap"},
                b \in {Undefined, "15000000"}, h \in {Undefined, "0xabc"}}
      [] route = "domain" ->
            {[NoParams EXCEPT !.action = act, !.domain = d, !.address = a] :
                act \in {Undefined, "lookup", "reverseLookup", "providersData", "swap"},
                d \in DomainSamples, a \in {Empty, ValidAddr, ShortAddr}}

\* the elements sampled for the list of each batch POST
Elements(route) ==
    {NullElement} \cup
    CASE route = "gasprice" ->
            {NoParams, [NoParams EXCEPT !.chain = "polygon"],
             [NoParams EXCEPT !.chainId = "137"]}
      [] route = "nft" ->
            {NoParams, [NoParams EXCEPT !.address = ValidAddr],
             [NoParams EXCEPT !.address = ShortAddr],
             [NoParams EXCEPT !.address = ValidAddr, !.limit = << "1", "0", "1" >>],
             [NoParams EXCEPT !.address = ValidAddr, !.limit = << "5", "x" >>]}
      [] route = "portfolio" ->
            {[NoParams EXCEPT !.action = "currentValue", !.addresses = ValidAddr],
             [NoParams EXCEPT !.action = "currentValue"],
             [NoParams EXCEPT !.action = "profitAndLoss", !.addresses = ValidAddr],
             [NoParams EXCEPT !.action = "swap", !.addresses = ValidAddr],
             [NoParams EXCEPT !.action = "tokenDetails", !.addresses = ShortAddr]}
      [] route = "token" ->
            {NoParams, [NoParams EXCEPT !.action = "all", !.chain = "polygon"],
             [NoParams EXCEPT !.action = "search"],
             [NoParams EXCEPT !.action = "search", !.query = "1inch"],
             [NoParams EXCEPT !.action = "custom", !.addresses = ShortAddr]}
      [] route = "spotprice" ->
            {NoParams, [NoParams EXCEPT !.chain = "polygon"],
             [NoParams EXCEPT !.tokens = Array(<< ValidAddr >>)],
             [NoParams EXCEPT !.addresses = ShortAddr]}
      [] route = "trace" ->
            {NoParams, [NoParams EXCEPT !.action = "syncedInterval"],
             [NoParams EXCEPT !.action = "blockTrace"],
             [NoParams EXCEPT !.action = "txTrace", !.blockNumber = "15000000",
                              !.txHash = "0xabc"]}
      [] route = "domain" ->
            {NoParams, [NoParams EXCEPT !.action = "providersData"],
             [NoParams EXCEPT !.action = "lookup", !.domain = << "e", "t", "h" >>],
             [NoParams EXCEPT !.action = "reverseLookup", !.address = ValidAddr],
             [NoParams EXCEPT !.action = "reverseLookup", !.address = ShortAddr]}

\* the lists of at most MaxBatch elements
RECURSIVE Lists(_, _)
Lists(S, n) ==
    IF n = 0 THEN {<< >>}
    ELSE Lists(S, n - 1) \cup {Append(l, e) : l \in {x \in Lists(S, n - 1) : Len(x) = n - 1}, e \in S}

\* the JSON bodies sampled for the POST of each route: null, an object
\* without the list, with a list that is no array, or with a list
NoPost ==
    [isObject |-> TRUE, action |-> Undefined, chainId |-> Undefined,
     tokens |-> NoArray, list |-> NoArray]
PostBodies(route) ==
    {[NoPost EXCEPT !.isObject = FALSE], NoPost, [NoPost EXCEPT !.list = NotArray]}
    \cup {[NoPost EXCEPT !.list = Array(l)] : l \in Lists(Elements(route), MaxBatch)}
    \cup (IF route # "spotprice" THEN {}
          ELSE {[NoPost EXCEPT !.action = "batch"],
                [NoPost EXCEPT !.action = "batch", !.list = NotArray],
                [NoPost EXCEPT !.action = "requested"],
                [NoPost EXCEPT !.action = "requested", !.tokens = NotArray],
                [NoPost EXCEPT !.action = "requested", !.tokens = Array(<< ValidAddr >>)],
                [NoPost EXCEPT !.action = "requested", !.chainId = "137",
                               !.tokens = Array(<< ValidAddr, ShortAddr >>)]}
               \cup {[NoPost EXCEPT !.action = "batch", !.list = Array(l)] :
                        l \in Lists(Elements(route), MaxBatch)})

(***************************************************************************)
(* State of one handler invocation.                                        *)
(***************************************************************************)
VARIABLES
    apiKey,     \* process.env.ONEINCH_API_KEY
    pc,         \* "idle", "fetch" (awaiting the upstream), "delay" (awaiting
                \* the timer) or "done" (response returned)
    req,        \* the request being handled
    plan,       \* single request: upstream URLs still to be requested
    i,          \* batch: position in the list of the element being processed
    results,    \* batch: the results array
    sent,       \* every upstream request sent, with when it settled and how
    response,   \* the response returned
    now,        \* the clock, in milliseconds
    projectId,      \* process.env.NEXT_PUBLIC_WALLETCONNECT_PROJECT_ID
    providerModule, \* "unloaded", "threw" or "loaded"
    config,         \* the wallet configuration getDefaultConfig created
    page,           \* the page rendered inside the provider tree, "none" before
    rendered,       \* what the page's component returned when it last rendered:
                    \* "landing", "placeholder" (Loading...) or "body"
    isConnected,    \* useAccount().isConnected
    mounted,        \* Dashboard: the mounted state
    activeSection,  \* Dashboard: the section shown
    effects,        \* the effects React has scheduled and not yet run
    favorites,      \* TokenSearch: the favorites state
    shownFavorites, \* TokenSearch: the favorites the rendered handlers close over
    storage,        \* localStorage['token-favorites']
    toggledOdd,     \* the addresses toggleFavorite was called with an odd
                    \* number of times
    selectedChain,  \* WalletHistory: the selectedChain state
    panelLimit,     \* WalletHistory: the limit state
    loading,        \* WalletHistory: the loading state
    panelError,     \* WalletHistory: the error state
    transactions,   \* WalletHistory: the transactions state, as the query
                    \* whose response set it
    fetchEffect,    \* WalletHistory: the effect on [address, selectedChain,
                    \* limit] is scheduled and has not run
    inFlight,       \* WalletHistory: the queries of the fetches not yet
                    \* answered, in the order they were sent
    lastUpdated,    \* WalletHistory: the lastUpdated state; 0 is null, and
                    \* each new Date() is one later than the one before
    selectedAction,   \* TokenSearch: the selectedAction state
    searchQuery,      \* TokenSearch: the searchQuery state
    addressesText,    \* TokenSearch: the addresses state
    tokenLoading,     \* TokenSearch: the loading state
    tokenError,       \* TokenSearch: the error state
    tokenList,        \* TokenSearch: the tokens state, as the query whose
                      \* response set it
    tokenLastUpdated, \* TokenSearch: the lastUpdated state
    tokensInFlight    \* TokenSearch: the queries of the fetches not yet
                      \* answered, in the order they were sent

apivars == << apiKey, pc, req, plan, i, results, sent, response, now >>
uivars == << projectId, providerModule, config, page, rendered, isConnected, mounted,
             activeSection, effects, favorites, shownFavorites, storage,
             toggledOdd >>
panelvars == << selectedChain, panelLimit, loading, panelError, transactions,
                fetchEffect, inFlight, lastUpdated >>
tokenvars == << selectedAction, searchQuery, addressesText, tokenLoading,
                tokenError, tokenList, tokenLastUpdated, tokensInFlight >>
vars == << apivars, uivars, panelvars, tokenvars >>

NoRequest == [route |-> "", method |-> "", q |-> NoParams, body |-> NoPost]

\* a POST that runs the batch loop
IsBatch(r) ==
    /\ r.method = "POST"
    /\ r.route = "spotprice" => r.body.action = "batch"

NoConfig == [created |-> FALSE, projectId |-> Undefined]
\* localStorage.getItem returns null
NoItem == [saved |-> FALSE, list |-> << >>]

\* no handler invocation under way
ApiIdle ==
    /\ pc = "idle"
    /\ req = NoRequest
    /\ plan = << >>
    /\ i = 0
    /\ results = << >>
    /\ sent = << >>
    /\ response = NoResponse
    /\ now = 0

\* the browser before the application's modules were loaded
UiIdle ==
    /\ providerModule = "unloaded"
    /\ config = NoConfig
    /\ page = "none"
    /\ rendered = "none"
    /\ isConnected = FALSE
    /\ mounted = FALSE
    /\ activeSection = "overview"
    /\ effects = {}
    /\ favorites = << >>
    /\ shownFavorites = << >>
    /\ storage = NoItem
    /\ toggledOdd = {}

\* the WalletHistory panel before it is mounted
NoQuery == [address |-> Undefined, chainId |-> "", limit |-> ""]
PanelIdle ==
    /\ selectedChain = "1"
    /\ panelLimit = "20"
    /\ loading = FALSE
    /\ panelError = FALSE
    /\ transactions = NoQuery
    /\ fetchEffect = FALSE
    /\ inFlight = << >>
    /\ lastUpdated = 0

\* the TokenSearch panel as useState initialises it
NoTokenQuery == [action |-> "", chainId |-> "", limit |-> "", query |-> Empty,
                 addresses |-> Empty, provider |-> Undefined]
TokenIdle ==
    /\ selectedAction = "search"
    /\ searchQuery = Empty
    /\ addressesText = Empty
    /\ tokenLoading = FALSE
    /\ tokenError = FALSE
    /\ tokenList = NoTokenQuery
    /\ tokenLastUpdated = 0
    /\ tokensInFlight = << >>

Init ==
    /\ apiKey \in ApiKeys
    /\ ApiIdle
    /\ projectId = Undefined
    /\ UiIdle
    /\ PanelIdle
    /\ TokenIdle

\* await fetch(url, { headers }): the request joins the log of those sent
\* and the handler waits for it
Fetch(log, url, elem) ==
    /\ sent' = Append(log, UpstreamRequest(url, apiKey, now', elem))
    /\ pc' = "fetch"

\* return NextResponse.json(...)
Respond(r) ==
    /\ response' = r
    /\ pc' = "done"

\* { error: '... array is required' }, status 400
ListRequiredText(route) ==
    CASE route = "gasprice"  -> "Chains array is required"
      [] route = "nft"       -> "Requests array is required"
      [] route = "spotprice" -> "Chains array is required for batch action"
      [] OTHER               -> "Operations array is required"

\* the batch loop from element k on, until its next await or its end
Continue(log, route, list, k, res) ==
    LET run == RunLoop(route, list, k, res)
    IN  /\ results' = run.results
        /\ i' = run.i
        /\ CASE run.kind = "fetch" -> Fetch(log, run.url, run.i) /\ UNCHANGED response
             [] run.kind = "throw" ->
                    /\ Respond(CatchResponse(PostFailText(route), Msg("TypeError")))
                    /\ sent' = log
             [] run.kind = "end" ->
                    /\ Respond(BatchResponse(list, run.results))
                    /\ sent' = log

\* GET forwarding before it validates: the upstream request is sent and the
\* rejection answered afterwards
GET_ForwardsFirst(route, q) ==
    /\ pc = "idle"
    /\ now' = now
    /\ req' = [route |-> route, method |-> "GET", q |-> q, body |-> NoPost]
    /\ LET v == GetValidate(route, q)
       IN  IF v.kind = "reject"
           THEN /\ Respond(ErrorResponse(400, v.error))
                /\ sent' = Append(sent, UpstreamRequest(NoUrl, apiKey, now', 0))
                /\ UNCHANGED plan
           ELSE /\ Fetch(sent, v.plan[1], 0)
                /\ plan' = Tail(v.plan)
                /\ UNCHANGED response
    /\ UNCHANGED << apiKey, i, results, uivars, panelvars, tokenvars >>

\* export async function GET(request), up to its first await
GET(route, q) ==
    /\ pc = "idle"
    /\ now' = now
    /\ req' = [route |-> route, method |-> "GET", q |-> q, body |-> NoPost]
    /\ LET v == GetValidate(route, q)
       IN  IF v.kind = "reject"
           THEN /\ Respond(ErrorResponse(400, v.error))
                /\ UNCHANGED << plan, sent >>
           ELSE /\ Fetch(sent, v.plan[1], 0)
                /\ plan' = Tail(v.plan)
                /\ UNCHANGED response
    /\ UNCHANGED << apiKey, i, results, uivars, panelvars, tokenvars >>

\* export async function POST(request), up to its first upstream request
POST(route, body) ==
    /\ pc = "idle"
    /\ now' = now
    /\ req' = [route |-> route, method |-> "POST", q |-> NoParams, body |-> body]
    /\ IF ~body.isObject
       THEN \* destructuring the body throws inside the handler's try
            /\ Respond(CatchResponse(PostFailText(route), Msg("TypeError")))
            /\ UNCHANGED << plan, i, results, sent >>
       ELSE IF route = "spotprice" /\ body.action = "requested"
       THEN LET v == SpotpriceRequested(body)
            IN  IF v.kind = "reject"
                THEN /\ Respond(ErrorResponse(400, v.error))
                     /\ UNCHANGED << plan, i, results, sent >>
                ELSE /\ Fetch(sent, v.plan[1], 0)
                     /\ plan' = Tail(v.plan)
                     /\ UNCHANGED << i, results, response >>
       ELSE IF route = "spotprice" /\ body.action # "batch"
       THEN /\ Respond(ErrorResponse(400, Msg("Invalid action. Use: requested or batch")))
            /\ UNCHANGED << plan, i, results, sent >>
       ELSE IF NotAnArray(body.list)
       THEN /\ Respond(ErrorResponse(400, Msg(ListRequiredText(route))))
            /\ UNCHANGED << plan, i, results, sent >>
       ELSE /\ Continue(sent, route, body.list.v, 1, << >>)
            /\ UNCHANGED plan
    /\ UNCHANGED << apiKey, uivars, panelvars, tokenvars >>

\* the handler running on without the fetch having settled
Settled_NotAwaited(log, at, outcome) == log

\* the log once the outstanding request settled, with the status and the
\* body the upstream answered
Settled(log, at, outcome) ==
    [log EXCEPT ![Len(log)].doneAt = at, ![Len(log)].status = outcome.status,
                ![Len(log)].body = outcome.body]

\* a handler that retries a failed batch element once before recording it
UpstreamSettles_RetriesOnce(outcome, latency) ==
    /\ pc = "fetch"
    /\ now' = now + latency
    /\ LET log == Settled(sent, now', outcome)
           route == req.route
           r == makeRequest(outcome)
           tried == Cardinality({j \in 1..Len(sent) : sent[j].elem = i})
       IN  IF IsBatch(req)
           THEN /\ UNCHANGED plan
                /\ IF r.threw /\ tried < 2
                   THEN Continue(log, route, req.body.list.v, i, results)
                   ELSE IF r.threw
                   THEN Continue(log, route, req.body.list.v, i + 1,
                                 Append(results,
                                        FailureEntry(route, req.body.list.v[i], r.error)))
                   ELSE /\ results' = Append(results,
                                             SuccessEntry(route, req.body.list.v[i], r.data))
                        /\ pc' = "delay"
                        /\ sent' = log
                        /\ UNCHANGED << i, response >>
           ELSE /\ UNCHANGED << i, results, plan >>
                /\ sent' = log
                /\ IF route = "history" /\ ~outcome.rejected /\ ~Ok(outcome.status)
                   THEN Respond(HistoryFailure(outcome.status))
                   ELSE IF r.threw
                   THEN Respond(CatchResponse(
                            IF req.method = "GET" THEN GetFailText(route)
                            ELSE PostFailText(route), r.error))
                   ELSE IF plan # << >>
                   THEN pc' = "delay" /\ UNCHANGED response
                   ELSE Respond(SuccessResponse(route, req.q, r.data))
    /\ UNCHANGED << apiKey, req, uivars, panelvars, tokenvars >>

\* the outstanding upstream request settles and the handler runs on to its
\* next await or to its response
UpstreamSettles(outcome, latency) ==
    /\ pc = "fetch"
    /\ now' = now + latency
    /\ LET log == Settled(sent, now', outcome)
           route == req.route
           r == makeRequest(outcome)
       IN  IF IsBatch(req)
           THEN /\ UNCHANGED plan
                /\ IF r.threw
                   THEN \* catch (error) { results.push({ success: false, ... }) }
                        Continue(log, route, req.body.list.v, i + 1,
                                 Append(results,
                                        FailureEntry(route, req.body.list.v[i], r.error)))
                   ELSE \* results.push({ success: true, ... }); await the sleep
                        /\ results' = Append(results,
                                             SuccessEntry(route, req.body.list.v[i], r.data))
                        /\ pc' = "delay"
                        /\ sent' = log
                        /\ UNCHANGED << i, response >>
           ELSE /\ UNCHANGED << i, results, plan >>
                /\ sent' = log
                /\ IF route = "history" /\ ~outcome.rejected /\ ~Ok(outcome.status)
                   THEN Respond(HistoryFailure(outcome.status))
                   ELSE IF r.threw
                   THEN Respond(CatchResponse(
                            IF req.method = "GET" THEN GetFailText(route)
                            ELSE PostFailText(route), r.error))
                   ELSE IF plan # << >>
                   THEN pc' = "delay" /\ UNCHANGED response
                   ELSE Respond(SuccessResponse(route, req.q, r.data))
    /\ UNCHANGED << apiKey, req, uivars, panelvars, tokenvars >>

\* the rate-limiting timer fires: setTimeout(resolve, ms)
TimerFires ==
    /\ pc = "delay"
    /\ now' = now + Delay(req.route)
    /\ IF IsBatch(req)
       THEN /\ Continue(sent, req.route, req.body.list.v, i + 1, results)
            /\ UNCHANGED plan
       ELSE /\ Fetch(sent, plan[1], 0)
            /\ plan' = Tail(plan)
            /\ UNCHANGED << i, results, response >>
    /\ UNCHANGED << apiKey, req, uivars, panelvars, tokenvars >>

Next ==
    \/ \E route \in Routes : \E q \in GetParams(route) : GET(route, q)
    \/ \E route \in BatchRoutes : \E body \in PostBodies(route) : POST(route, body)
    \/ \E outcome \in UpstreamOutcomes(req.route), latency \in UpstreamLatencies :
          UpstreamSettles(outcome, latency)
    \/ TimerFires

Spec == Init /\ [][Next]_vars

\* the upstream answers or fails: fetch settles one way or the other
UpstreamAnswers ==
    \E outcome \in UpstreamOutcomes(req.route), latency \in UpstreamLatencies :
        UpstreamSettles(outcome, latency)

\* every upstream call eventually completes or fails, and a timer that was
\* set fires
SpecFair == Spec /\ WF_vars(UpstreamAnswers) /\ WF_vars(TimerFires)

(***************************************************************************)
(* The client: the provider module (src/frontend/src/components/           *)
(* provider.tsx), the landing page (src/unnamed/part_000) and the          *)
(* dashboard (src/unnamed/part_009).                                       *)
(***************************************************************************)
ProjectIds == {Undefined, "", "wc-project"}
Pages == {"/", "/dashboard"}
Sections == {"overview", "history", "tokens"}
TokenAddresses == {"0xdai", "0xusdc"}

\* the provider module without its `if (!WALLETCONNECT_ID) throw`
WALLETCONNECT_ID_Unchecked(id) ==
    [threw |-> FALSE, config |-> [created |-> TRUE, projectId |-> id]]

\* the top level of the provider module: WALLETCONNECT_ID is read, the
\* module throws when it is missing, and only then is the configuration
\* created
WALLETCONNECT_ID(id) ==
    IF Missing(id)
    THEN [threw |-> TRUE, config |-> NoConfig]
    ELSE [threw |-> FALSE, config |-> [created |-> TRUE, projectId |-> id]]

\* the effects the first render of a page schedules
FirstEffects(path) == IF path = "/" THEN {"landing"} ELSE {"mount", "redirect"}

\* Dashboard returning the body without waiting for mounted
DashboardBody_Unmounted(p, connected, m) == p = "/dashboard" /\ connected

\* what Dashboard returns: the dashboard body, or else the loading placeholder
DashboardBody(p, connected, m) == p = "/dashboard" /\ m /\ connected

\* what the component of page p returns
Returns(p, connected, m) ==
    IF p = "/" THEN "landing"
    ELSE IF DashboardBody(p, connected, m) THEN "body"
    ELSE "placeholder"

\* {activeSection === 'tokens' && <TokenSearch />}
TokenSearchShown(p, connected, m, section) ==
    DashboardBody(p, connected, m) /\ section = "tokens"

\* the tree renders with the given page and state: a TokenSearch that
\* appears starts from its initial state with its effect scheduled, one
\* that disappears loses its state
Render(p, connected, m, section, eff) ==
    LET was  == TokenSearchShown(page, isConnected, mounted, activeSection)
        will == TokenSearchShown(p, connected, m, section)
    IN  /\ page' = p
        /\ rendered' = Returns(p, connected, m)
        /\ isConnected' = connected
        /\ mounted' = m
        /\ activeSection' = section
        /\ effects' = IF will /\ ~was THEN eff \cup {"favorites"}
                      ELSE IF ~will THEN eff \ {"favorites"}
                      ELSE eff
        /\ favorites' = IF will /\ was THEN favorites ELSE << >>
        /\ shownFavorites' = IF will /\ was THEN shownFavorites ELSE << >>
        /\ UNCHANGED << projectId, providerModule, config, storage, toggledOdd,
                        apivars, panelvars, tokenvars >>

\* router.push(path): the page is replaced by a fresh instance of the target
Push(path) == Render(path, isConnected, FALSE, "overview", FirstEffects(path))

\* the root layout imports the provider module
LoadProviderModule ==
    /\ providerModule = "unloaded"
    /\ LET m == WALLETCONNECT_ID(projectId)
       IN  /\ providerModule' = IF m.threw THEN "threw" ELSE "loaded"
           /\ config' = m.config
    /\ UNCHANGED << projectId, page, rendered, isConnected, mounted, activeSection, effects,
                    favorites, shownFavorites, storage, toggledOdd, apivars, panelvars, tokenvars >>

\* <Provider>{children}</Provider> renders the page of the requested path
Provider(path) ==
    /\ providerModule = "loaded"
    /\ page = "none"
    /\ Push(path)

\* the wallet connects or disconnects; the page renders again and the
\* effects that depend on isConnected are scheduled.  React runs the effects
\* of the previous render before it starts the next one
WalletChanges ==
    /\ page # "none"
    /\ effects = {}
    /\ Render(page, ~isConnected, mounted, activeSection,
              effects \cup (IF page = "/" THEN {"landing"} ELSE {"redirect"}))

\* the landing page's effect without its `if (isConnected)`
LandingPage_AlwaysPushes ==
    /\ page = "/"
    /\ "landing" \in effects
    /\ Push("/dashboard")

\* LandingPage: useEffect(() => { if (isConnected) router.push("/dashboard") })
LandingPage ==
    /\ page = "/"
    /\ "landing" \in effects
    /\ IF isConnected THEN Push("/dashboard")
       ELSE Render(page, isConnected, mounted, activeSection, effects \ {"landing"})

\* Dashboard: useEffect(() => { setMounted(true) }, [])
DashboardMounts ==
    /\ page = "/dashboard"
    /\ "mount" \in effects
    /\ Render(page, isConnected, TRUE, activeSection,
              (effects \ {"mount"}) \cup {"redirect"})

\* Dashboard: useEffect(() => { if (mounted && !isConnected) router.push("/") })
Dashboard ==
    /\ page = "/dashboard"
    /\ "redirect" \in effects
    /\ IF mounted /\ ~isConnected THEN Push("/")
       ELSE Render(page, isConnected, mounted, activeSection, effects \ {"redirect"})

\* the navigation tabs: onClick={() => setActiveSection(section)}
setActiveSection(section) ==
    /\ DashboardBody(page, isConnected, mounted)
    /\ Render(page, isConnected, mounted, section, effects)

\* the landing page's "Go to Dashboard" button, shown once connected
GoToDashboard ==
    /\ page = "/"
    /\ isConnected
    /\ Push("/dashboard")

\* new Set(favorites) with tokenAddress deleted if present, added if not;
\* a Set keeps its elements in insertion order
Toggled(favs, tokenAddress) ==
    IF \E k \in 1..Len(favs) : favs[k] = tokenAddress
    THEN SelectSeq(favs, LAMBDA a : a # tokenAddress)
    ELSE Append(favs, tokenAddress)

\* TokenSearch: useEffect(() => { ... localStorage.getItem('token-favorites') ... }, [])
LoadFavorites ==
    /\ "favorites" \in effects
    /\ effects' = effects \ {"favorites"}
    /\ favorites' = IF storage.saved THEN storage.list ELSE favorites
    /\ UNCHANGED << projectId, providerModule, config, page, rendered, isConnected, mounted,
                    activeSection, shownFavorites, storage, toggledOdd, apivars, panelvars, tokenvars >>

\* TokenSearch renders again with the favorites state it now holds
TokenSearch ==
    /\ TokenSearchShown(page, isConnected, mounted, activeSection)
    /\ shownFavorites # favorites
    /\ shownFavorites' = favorites
    /\ UNCHANGED << projectId, providerModule, config, page, rendered, isConnected, mounted,
                    activeSection, effects, favorites, storage, toggledOdd, apivars, panelvars, tokenvars >>

\* toggleFavorite, then saveFavorites: the handler toggles the favorites it
\* was rendered with, sets the state and writes local storage
toggleFavorite(tokenAddress) ==
    /\ TokenSearchShown(page, isConnected, mounted, activeSection)
    /\ LET newFavorites == Toggled(shownFavorites, tokenAddress)
       IN  /\ favorites' = newFavorites
           /\ storage' = [saved |-> TRUE, list |-> newFavorites]
    /\ toggledOdd' = IF tokenAddress \in toggledOdd
                     THEN toggledOdd \ {tokenAddress}
                     ELSE toggledOdd \cup {tokenAddress}
    /\ UNCHANGED << projectId, providerModule, config, page, rendered, isConnected, mounted,
                    activeSection, effects, shownFavorites, apivars, panelvars, tokenvars >>

UiInit ==
    /\ apiKey = Undefined
    /\ ApiIdle
    /\ projectId \in ProjectIds
    /\ UiIdle
    /\ PanelIdle
    /\ TokenIdle

UiNext ==
    \/ LoadProviderModule
    \/ \E path \in Pages : Provider(path)
    \/ WalletChanges
    \/ LandingPage
    \/ DashboardMounts
    \/ Dashboard
    \/ \E section \in Sections : setActiveSection(section)
    \/ GoToDashboard
    \/ LoadFavorites
    \/ TokenSearch
    \/ \E tokenAddress \in TokenAddresses : toggleFavorite(tokenAddress)

SpecUI == UiInit /\ [][UiNext]_vars

\* React runs every effect it has scheduled
SpecUIFair ==
    SpecUI /\ WF_vars(LandingPage) /\ WF_vars(DashboardMounts) /\ WF_vars(Dashboard)

(***************************************************************************)
(* The wallet history panel: src/unnamed/part_001                          *)
(***************************************************************************)
PanelChains == {"1", "137"}
PanelLimits == {"10", "20"}
\* what fetch('/api/wallethistory?...') comes back with: a 2xx response
\* with success:true, or a failure (a non-2xx response or a rejected fetch)
PanelOutcomes == {"ok", "failed"}

\* useAccount().address of the connected wallet
ConnectedAddress == "0xwallet"

\* new URLSearchParams({ address, chainId: selectedChain, limit })
SearchParams(address, chain, lim) ==
    [address |-> address, chainId |-> chain, limit |-> lim]

\* fetchTransactions up to its await, with the state of the render that
\* created it
fetchTransactions(address, chain, lim) ==
    IF Missing(address)
    THEN UNCHANGED << loading, panelError, inFlight >>
    ELSE /\ loading' = TRUE
         /\ panelError' = FALSE
         /\ inFlight' = Append(inFlight, SearchParams(address, chain, lim))

\* onChange={(e) => setSelectedChain(e.target.value)}: the panel renders
\* again and the effect is scheduled, its dependencies having changed
setSelectedChain(chain) ==
    /\ activeSection = "history"
    /\ chain # selectedChain
    /\ selectedChain' = chain
    /\ fetchEffect' = TRUE
    /\ UNCHANGED << panelLimit, loading, panelError, transactions, inFlight,
                    lastUpdated, apivars, uivars, tokenvars >>

\* onChange={(e) => setLimit(e.target.value)}
setLimit(lim) ==
    /\ activeSection = "history"
    /\ lim # panelLimit
    /\ panelLimit' = lim
    /\ fetchEffect' = TRUE
    /\ UNCHANGED << selectedChain, loading, panelError, transactions, inFlight,
                    lastUpdated, apivars, uivars, tokenvars >>

\* useEffect(() => { fetchTransactions() }, [address, selectedChain, limit])
WalletHistory ==
    /\ fetchEffect
    /\ Len(inFlight) < MaxInFlight
    /\ fetchEffect' = FALSE
    /\ fetchTransactions(ConnectedAddress, selectedChain, panelLimit)
    /\ UNCHANGED << selectedChain, panelLimit, transactions, lastUpdated,
                    apivars, uivars, tokenvars >>

\* the refresh button: onClick={fetchTransactions}, disabled={loading}
Refresh ==
    /\ activeSection = "history"
    /\ ~loading
    /\ Len(inFlight) < MaxInFlight
    /\ fetchTransactions(ConnectedAddress, selectedChain, panelLimit)
    /\ UNCHANGED << selectedChain, panelLimit, transactions, fetchEffect,
                    lastUpdated, apivars, uivars, tokenvars >>

\* the answer handled with a catch block that also empties the list
PanelResponse_ClearsList(k, outcome) ==
    /\ k \in 1..Len(inFlight)
    /\ inFlight' = SubSeq(inFlight, 1, k - 1) \o SubSeq(inFlight, k + 1, Len(inFlight))
    /\ IF outcome = "ok"
       THEN /\ lastUpdated < MaxUpdates
            /\ transactions' = inFlight[k]
            /\ lastUpdated' = lastUpdated + 1
            /\ UNCHANGED panelError
       ELSE /\ panelError' = TRUE
            /\ transactions' = NoQuery
            /\ UNCHANGED lastUpdated
    /\ loading' = FALSE
    /\ UNCHANGED << selectedChain, panelLimit, fetchEffect, apivars, uivars, tokenvars >>

\* the k-th fetch in flight is answered and fetchTransactions runs on:
\* setTransactions and setLastUpdated on success, setError on failure,
\* setLoading(false) finally
PanelResponse(k, outcome) ==
    /\ k \in 1..Len(inFlight)
    /\ inFlight' = SubSeq(inFlight, 1, k - 1) \o SubSeq(inFlight, k + 1, Len(inFlight))
    /\ IF outcome = "ok"
       THEN /\ lastUpdated < MaxUpdates
            /\ transactions' = inFlight[k]
            /\ lastUpdated' = lastUpdated + 1
            /\ UNCHANGED panelError
       ELSE /\ panelError' = TRUE
            /\ UNCHANGED << transactions, lastUpdated >>
    /\ loading' = FALSE
    /\ UNCHANGED << selectedChain, panelLimit, fetchEffect, apivars, uivars, tokenvars >>

\* the dashboard showing its history section, the panel rendered for the
\* first time and its effect scheduled
PanelInit ==
    /\ apiKey = Undefined
    /\ ApiIdle
    /\ projectId = "wc-project"
    /\ providerModule = "loaded"
    /\ config = WALLETCONNECT_ID(projectId).config
    /\ page = "/dashboard"
    /\ rendered = "body"
    /\ isConnected = TRUE
    /\ mounted = TRUE
    /\ activeSection = "history"
    /\ effects = {}
    /\ favorites = << >>
    /\ shownFavorites = << >>
    /\ storage = NoItem
    /\ toggledOdd = {}
    /\ selectedChain = "1"
    /\ panelLimit = "20"
    /\ loading = FALSE
    /\ panelError = FALSE
    /\ transactions = NoQuery
    /\ fetchEffect = TRUE
    /\ inFlight = << >>
    /\ lastUpdated = 0
    /\ TokenIdle

PanelNext ==
    \/ \E chain \in PanelChains : setSelectedChain(chain)
    \/ \E lim \in PanelLimits : setLimit(lim)
    \/ WalletHistory
    \/ Refresh
    \/ \E k \in 1..MaxInFlight, outcome \in PanelOutcomes : PanelResponse(k, outcome)

SpecPanel == PanelInit /\ [][PanelNext]_vars

(***************************************************************************)
(* The token search panel: src/frontend/src/components/ui/token.tsx        *)
(***************************************************************************)
TokenActions == {"search", "custom", "all"}
QuerySamples == {Empty, << " " >>, << "u" >>}
AddressesTextSamples == {Empty, << "0", "x" >>}
Keys == {"Enter", "a"}
\* what fetch('/api/tokenapi?...') comes back with: a 2xx response with
\* success:true whose data is an array, an object or null, or a failure (a
\* non-2xx response or a rejected fetch)
TokenOutcomes == {"array", "object", "null", "failed"}

\* the params fetchTokens builds from the state of the render that created it
TokenParams(action, query, addresses) ==
    [action |-> action, chainId |-> "1", limit |-> "20",
     query |-> IF action = "search" /\ ~Blank(Trim(query)) THEN Trim(query) ELSE Empty,
     addresses |-> IF action = "custom" /\ ~Blank(Trim(addresses))
                   THEN Trim(addresses) ELSE Empty,
     provider |-> IF action \in {"all", "tokenList"} THEN "1inch" ELSE Undefined]

\* fetchTokens up to its await
fetchTokens ==
    /\ Len(tokensInFlight) < MaxInFlight
    /\ tokenLoading' = TRUE
    /\ tokenError' = FALSE
    /\ tokensInFlight' = Append(tokensInFlight,
                                TokenParams(selectedAction, searchQuery, addressesText))

\* handleSearch returns early on an empty query or address list
handleSearch ==
    IF \/ selectedAction = "search" /\ Blank(Trim(searchQuery))
       \/ selectedAction = "custom" /\ Blank(Trim(addressesText))
    THEN UNCHANGED << tokenLoading, tokenError, tokensInFlight >>
    ELSE fetchTokens

\* onChange={(e) => setSelectedAction(e.target.value)}
setSelectedAction(action) ==
    /\ activeSection = "tokens"
    /\ action # selectedAction
    /\ selectedAction' = action
    /\ UNCHANGED << searchQuery, addressesText, tokenLoading, tokenError, tokenList,
                    tokenLastUpdated, tokensInFlight, apivars, uivars, panelvars >>

\* the query field, rendered for the search action
setSearchQuery(query) ==
    /\ activeSection = "tokens"
    /\ selectedAction = "search"
    /\ query # searchQuery
    /\ searchQuery' = query
    /\ UNCHANGED << selectedAction, addressesText, tokenLoading, tokenError, tokenList,
                    tokenLastUpdated, tokensInFlight, apivars, uivars, panelvars >>

\* the addresses field, rendered for the custom action
setAddresses(addresses) ==
    /\ activeSection = "tokens"
    /\ selectedAction = "custom"
    /\ addresses # addressesText
    /\ addressesText' = addresses
    /\ UNCHANGED << selectedAction, searchQuery, tokenLoading, tokenError, tokenList,
                    tokenLastUpdated, tokensInFlight, apivars, uivars, panelvars >>

\* the refresh button: onClick={fetchTokens}, disabled={loading}
RefreshTokens ==
    /\ activeSection = "tokens"
    /\ ~tokenLoading
    /\ fetchTokens
    /\ UNCHANGED << selectedAction, searchQuery, addressesText, tokenList,
                    tokenLastUpdated, apivars, uivars, panelvars >>

\* the search button: onClick={handleSearch}, disabled while loading or
\* while the field of the selected action is empty
SearchButton ==
    /\ activeSection = "tokens"
    /\ ~tokenLoading
    /\ ~(selectedAction = "search" /\ Blank(Trim(searchQuery)))
    /\ ~(selectedAction = "custom" /\ Blank(Trim(addressesText)))
    /\ handleSearch
    /\ UNCHANGED << selectedAction, searchQuery, addressesText, tokenList,
                    tokenLastUpdated, apivars, uivars, panelvars >>

\* onKeyPress={handleKeyPress} of the query and the addresses field
handleKeyPress(key) ==
    /\ activeSection = "tokens"
    /\ selectedAction \in {"search", "custom"}
    /\ IF key = "Enter" THEN handleSearch
       ELSE UNCHANGED << tokenLoading, tokenError, tokensInFlight >>
    /\ UNCHANGED << selectedAction, searchQuery, addressesText, tokenList,
                    tokenLastUpdated, apivars, uivars, panelvars >>

\* the answer handled without the catch block's setError
TokenResponse_Silent(k, outcome) ==
    /\ k \in 1..Len(tokensInFlight)
    /\ tokensInFlight' = SubSeq(tokensInFlight, 1, k - 1)
                             \o SubSeq(tokensInFlight, k + 1, Len(tokensInFlight))
    /\ IF outcome \in {"array", "object"}
       THEN /\ tokenLastUpdated < MaxUpdates
            /\ tokenList' = tokensInFlight[k]
            /\ tokenLastUpdated' = tokenLastUpdated + 1
            /\ UNCHANGED tokenError
       ELSE UNCHANGED << tokenError, tokenList, tokenLastUpdated >>
    /\ tokenLoading' = FALSE
    /\ UNCHANGED << selectedAction, searchQuery, addressesText, apivars, uivars,
                    panelvars >>

\* the k-th fetch in flight is answered and fetchTokens runs on: setTokens
\* and setLastUpdated on success, setError when something threw (a failed
\* fetch, or Object.entries(null)), setLoading(false) finally
TokenResponse(k, outcome) ==
    /\ k \in 1..Len(tokensInFlight)
    /\ tokensInFlight' = SubSeq(tokensInFlight, 1, k - 1)
                             \o SubSeq(tokensInFlight, k + 1, Len(tokensInFlight))
    /\ IF outcome \in {"array", "object"}
       THEN /\ tokenLastUpdated < MaxUpdates
            /\ tokenList' = tokensInFlight[k]
            /\ tokenLastUpdated' = tokenLastUpdated + 1
            /\ UNCHANGED tokenError
       ELSE /\ tokenError' = TRUE
            /\ UNCHANGED << tokenList, tokenLastUpdated >>
    /\ tokenLoading' = FALSE
    /\ UNCHANGED << selectedAction, searchQuery, addressesText, apivars, uivars,
                    panelvars >>

\* the dashboard showing its tokens section, the panel rendered for the
\* first time and its favorites loaded
TokenInit ==
    /\ apiKey = Undefined
    /\ ApiIdle
    /\ projectId = "wc-project"
    /\ providerModule = "loaded"
    /\ config = WALLETCONNECT_ID(projectId).config
    /\ page = "/dashboard"
    /\ rendered = "body"
    /\ isConnected = TRUE
    /\ mounted = TRUE
    /\ activeSection = "tokens"
    /\ effects = {}
    /\ favorites = << >>
    /\ shownFavorites = << >>
    /\ storage = NoItem
    /\ toggledOdd = {}
    /\ PanelIdle
    /\ TokenIdle

TokenNext ==
    \/ \E action \in TokenActions : setSelectedAction(action)
    \/ \E query \in QuerySamples : setSearchQuery(query)
    \/ \E addresses \in AddressesTextSamples : setAddresses(addresses)
    \/ RefreshTokens
    \/ SearchButton
    \/ \E key \in Keys : handleKeyPress(key)
    \/ \E k \in 1..MaxInFlight, outcome \in TokenOutcomes : TokenResponse(k, outcome)

SpecTokens == TokenInit /\ [][TokenNext]_vars

\* the dashboard showing either panel
SpecPanels == (PanelInit \/ TokenInit) /\ [][PanelNext \/ TokenNext]_vars

(***************************************************************************)
(* Properties.                                                             *)
(***************************************************************************)
Finished == pc = "done"

\* a batch POST that was given a list
BatchRan == IsBatch(req) /\ req.body.isObject /\ req.body.list.t = "array"
BatchList == req.body.list.v

\* the upstream requests element k of the list caused
RequestsOf(k) == {j \in 1..Len(sent) : sent[j].elem = k}
\* element k's own upstream request was answered 2xx
OwnSuccess(k) == \E j \in RequestsOf(k) : Ok(sent[j].status)
\* processing element k failed: its validation rejected it, or its upstream
\* request was answered non-2xx or rejected
ElementFailed(k) ==
    \/ ElementValidate(req.route, BatchList[k]).kind = "reject"
    \/ \E j \in RequestsOf(k) : sent[j].doneAt >= 0 /\ ~Ok(sent[j].status)

\* the entry element k alone determines, its error message left aside
OwnEntry(k) ==
    IF OwnSuccess(k)
    THEN SuccessEntry(req.route, BatchList[k],
                      sent[CHOOSE j \in RequestsOf(k) : Ok(sent[j].status)].body)
    ELSE FailureEntry(req.route, BatchList[k], NoMsg)

\* C1: a batch POST answers a list of n elements with a results array of
\* exactly n entries, entry k being the outcome of element k (its own
\* fields, success exactly when its own upstream request succeeded).
C1_ResultsMatchInput ==
    Finished /\ BatchRan =>
        /\ response.hasResults
        /\ Len(response.results) = Len(BatchList)
        /\ \A k \in 1..Len(BatchList) :
              k <= Len(response.results) =>
                 [response.results[k] EXCEPT !.error = NoMsg] = OwnEntry(k)

\* C2: when processing element k of a batch fails, the batch still answers
\* 200 with success:true, entry k has success:false and an error, every
\* element has its entry, and every other entry is decided by its own
\* element alone.
C2_FailureIsolated ==
    Finished /\ BatchRan =>
        \A k \in 1..Len(BatchList) :
            ElementFailed(k) =>
                /\ response.status = 200
                /\ response.success
                /\ Len(response.results) = Len(BatchList)
                /\ ~response.results[k].success
                /\ response.results[k].error # NoMsg
                /\ \A m \in 1..Len(BatchList) :
                      response.results[m].success <=> OwnSuccess(m)

\* C3: a null element of the list is recorded as a failed entry and the
\* batch still answers 200 with one entry per element.
C3_NullElementRecorded ==
    Finished /\ BatchRan /\ (\E k \in 1..Len(BatchList) : ~BatchList[k].isObject) =>
        /\ response.status = 200
        /\ Len(response.results) = Len(BatchList)
        /\ \A k \in 1..Len(BatchList) :
              ~BatchList[k].isObject => ~response.results[k].success

\* some address of a comma-separated list is not 0x and 40 hex digits
SomeMalformed(addresses) ==
    ~Blank(addresses) /\ \E k \in 1..Len(Split(addresses)) : ~IsAddress(Split(addresses)[k])
\* the GET was given an address that is not 0x and 40 hex digits
MalformedAddress(route, q) ==
    CASE route \in {"nft", "history"} -> ~Blank(q.address) /\ ~IsAddress(q.address)
      [] route = "portfolio" -> SomeMalformed(q.addresses)
      [] route = "spotprice" -> q.action = "addresses" /\ SomeMalformed(q.addresses)
      [] route = "token" -> q.action = "custom" /\ SomeMalformed(q.addresses)
      [] route = "domain" ->
            q.action = "reverseLookup" /\ ~Blank(q.address) /\ ~IsAddress(q.address)
      [] OTHER -> FALSE

\* C4: a GET given a malformed address sends nothing upstream and answers 400.
C4_MalformedAddressRejected ==
    req.method = "GET" /\ MalformedAddress(req.route, req.q) =>
        /\ sent = << >>
        /\ Finished => response.status = 400

\* the status of the upstream answer the GET ended on, when it was non-2xx
LastStatus == sent[Len(sent)].status
UpstreamFailed ==
    /\ sent # << >>
    /\ sent[Len(sent)].doneAt >= 0
    /\ LastStatus >= 0
    /\ ~(LastStatus >= 200 /\ LastStatus <= 299)

\* upstream request j settled and was not answered 2xx
CallFailed(j) ==
    sent[j].doneAt >= 0 /\ ~(sent[j].status >= 200 /\ sent[j].status <= 299)

\* C5: a GET whose upstream answers non-2xx responds 500 with the wrapped
\* upstream status in details; the wallet history route responds 401 for
\* 401, 429 for 429 and 500 otherwise; nothing reports success:true for a
\* failed upstream call: not the response of a GET or of a single-request
\* POST, and not the results entry of the batch element that made the call.
C5_UpstreamFailureSurfaces ==
    /\ Finished /\ req.method = "GET" /\ UpstreamFailed /\ req.route # "history" =>
          /\ response.status = 500
          /\ response.details.status = LastStatus
          /\ response.details.text # ""
    /\ Finished /\ req.method = "GET" /\ UpstreamFailed /\ req.route = "history" =>
          /\ LastStatus = 401 => response.status = 401
          /\ LastStatus = 429 => response.status = 429
          /\ LastStatus \notin {401, 429} =>
                response.status = 500 /\ response.details.status = LastStatus
    /\ Finished /\ ~IsBatch(req) /\ (\E j \in 1..Len(sent) : CallFailed(j)) =>
          ~response.success /\ response.status # 200
    /\ Finished /\ IsBatch(req) =>
          \A j \in 1..Len(sent) :
              CallFailed(j) /\ sent[j].elem <= Len(response.results) =>
                 ~response.results[sent[j].elem].success

C5_Witness ==
    /\ Finished
    /\ req.method = "GET"
    /\ req.route = "history"
    /\ UpstreamFailed
    /\ LastStatus = 429
    /\ response.status = 429

\* C6: in a batch, an upstream request is sent no sooner than the fixed
\* delay after the previous upstream request settled, whether that one
\* succeeded or failed.
C6_DelayBetweenRequests ==
    IsBatch(req) =>
        \A j \in 2..Len(sent) :
            sent[j].sentAt >= sent[j - 1].doneAt + Delay(req.route)

\* C7: without ONEINCH_API_KEY an invocation sends nothing upstream and
\* ends in an error; no upstream request carries a token that is not a key.
C7_NoRequestWithoutKey ==
    /\ apiKey = Undefined => sent = << >> /\ (Finished => response.status >= 400)
    /\ \A j \in 1..Len(sent) : sent[j].authorization.token # Undefined

\* C8: without NEXT_PUBLIC_WALLETCONNECT_PROJECT_ID the provider module
\* throws before a configuration is created, and the provider tree is never
\* rendered with a missing project id.
C8_ProviderNeedsProjectId ==
    /\ (projectId = Undefined \/ projectId = "") =>
          /\ providerModule \in {"unloaded", "threw"}
          /\ ~config.created
          /\ page = "none"
    /\ page # "none" =>
          config.created /\ config.projectId # Undefined /\ config.projectId # ""

C8_Witness ==
    /\ projectId = Undefined
    /\ providerModule = "threw"
    /\ ~config.created

\* C9: a wallet history GET that answers 200 put into the upstream URL the
\* chain id it reports and stamps on every transaction: the chainId
\* parameter, '1' when absent.
C9_HistoryChainId ==
    Finished /\ req.method = "GET" /\ req.route = "history" /\ response.status = 200 =>
        /\ response.chainId = (IF req.q.chainId = Undefined THEN "1" ELSE req.q.chainId)
        /\ sent[1].url.chainId = response.chainId
        /\ \A t \in 1..Len(response.transactions) :
              response.transactions[t].chainId = response.chainId

\* the actions each route lists, and the action a GET selects
ListedActions(route) ==
    CASE route = "portfolio" -> {"currentValue", "profitAndLoss", "tokenDetails", "all"}
      [] route = "token"     -> {"search", "custom", "all", "tokenList"}
      [] route = "spotprice" -> {"whitelisted", "addresses"}
      [] route = "trace"     -> {"syncedInterval", "blockTrace", "txTrace"}
      [] route = "domain"    -> {"lookup", "reverseLookup", "providersData"}
      [] OTHER -> {}
Absent(x) == x = Undefined
\* a required parameter of the GET is missing, or its action is not listed
RequiredMissing(route, q) ==
    \/ route \in {"portfolio", "trace", "domain"} /\ Absent(q.action)
    \/ ListedActions(route) # {} /\ ~Absent(q.action) /\ q.action \notin ListedActions(route)
    \/ route \in {"nft", "history"} /\ q.address = << >>
    \/ route = "portfolio" /\ q.addresses = << >>
    \/ route = "portfolio" /\ q.action = "profitAndLoss"
          /\ (Absent(q.fromTimestamp) \/ Absent(q.toTimestamp))
    \/ route = "token" /\ q.action = "search" /\ Absent(q.query)
    \/ route = "token" /\ q.action = "custom" /\ q.addresses = << >>
    \/ route = "spotprice" /\ q.action = "addresses" /\ q.addresses = << >>
    \/ route = "trace" /\ q.action = "blockTrace" /\ Absent(q.blockNumber)
    \/ route = "trace" /\ q.action = "txTrace"
          /\ (Absent(q.blockNumber) \/ Absent(q.txHash))
    \/ route = "domain" /\ q.action = "lookup" /\ q.domain = << >>
    \/ route = "domain" /\ q.action = "reverseLookup" /\ q.address = << >>

AsQuery(route, el) ==
    IF route = "spotprice"
    THEN [el EXCEPT !.action = IF el.addresses = << >> THEN "whitelisted"
                                ELSE "addresses"]
    ELSE el
\* the batch elements a GET of the route can express
Comparable(route, el) ==
    /\ el.isObject
    /\ route = "spotprice" => el.tokens.t # "array"

\* C11: a batch element is treated as the route's GET treats the same
\* parameters: rejected without an upstream request when the GET rejects
\* them, sent to the URL the GET would request otherwise, and successful
\* exactly when the GET would answer 200.
C11_ElementAsGet ==
    Finished /\ BatchRan /\ response.hasResults =>
        \A k \in 1..Len(BatchList) :
            Comparable(req.route, BatchList[k]) =>
               LET g == GetValidate(req.route, AsQuery(req.route, BatchList[k]))
               IN  /\ g.kind = "reject" =>
                        RequestsOf(k) = {} /\ ~response.results[k].success
                   /\ g.kind = "fetch" =>
                        /\ \E j \in RequestsOf(k) : sent[j].url = g.plan[1]
                        /\ response.results[k].success <=> OwnSuccess(k)

\* a results entry that failed with a message of the handler's own checks,
\* not with what makeRequest threw
ValidationFailure(e) ==
    /\ ~e.success
    /\ e.error.status = 0
    /\ e.error.text \notin {"", "fetch failed"}

\* C12: validation precedes forwarding: when the response is 400 no
\* upstream request was sent for the request, and for a batch entry that
\* failed with a validation message none was sent for its element.
C12_ValidationBeforeForwarding ==
    /\ response.status = 400 => sent = << >>
    /\ IsBatch(req) =>
          \A k \in 1..Len(results) :
              ValidationFailure(results[k]) => RequestsOf(k) = {}

C12_Witness ==
    /\ Finished
    /\ BatchRan
    /\ response.status = 200
    /\ Len(sent) = 1
    /\ \E k \in 1..Len(response.results) :
          ValidationFailure(response.results[k]) /\ RequestsOf(k) = {}

\* the upstream requests sent and not yet settled
Outstanding == {j \in 1..Len(sent) : sent[j].doneAt < 0}

\* C13: within one invocation at most one upstream request is outstanding:
\* a request is sent only after the previous one settled; in a batch the
\* request of an element is sent when the entries of all elements before
\* it are in results, and its own entry follows when it settled.
C13_OneOutstanding ==
    /\ Cardinality(Outstanding) <= 1
    /\ \A j \in 1..(Len(sent) - 1) :
          sent[j].doneAt >= 0 /\ sent[j + 1].sentAt >= sent[j].doneAt
    /\ IsBatch(req) =>
          \A j \in 1..Len(sent) :
              IF sent[j].doneAt < 0
              THEN Len(results) = sent[j].elem - 1
              ELSE Len(results) >= sent[j].elem

C13_Witness ==
    /\ Len(sent) = 2
    /\ Outstanding = {2}
    /\ \/ IsBatch(req) /\ Len(results) = 1 /\ sent[2].elem = 2
       \/ req.route = "portfolio" /\ req.q.action = "all"

\* the sub-queries of a portfolio GET with action all
IsPortfolioAll == req.method = "GET" /\ req.route = "portfolio" /\ req.q.action = "all"
SubQueries ==
    IF req.q.fromTimestamp \notin {Undefined, ""} /\ req.q.toTimestamp \notin {Undefined, ""}
    THEN 3 ELSE 2

\* C14: no upstream call is retried: a batch element causes at most one
\* upstream request, a single-action GET or POST sends at most one, and
\* portfolio action all sends one request per sub-query, none of them twice.
C14_NoRetry ==
    /\ IsBatch(req) =>
          \A k \in 1..Len(BatchList) : Cardinality(RequestsOf(k)) <= 1
    /\ req.method # "" /\ ~IsBatch(req) /\ ~IsPortfolioAll => Len(sent) <= 1
    /\ IsPortfolioAll =>
          /\ Len(sent) <= SubQueries
          /\ \A j, m \in 1..Len(sent) : j # m => sent[j].url # sent[m].url
          /\ Finished /\ response.status = 200 => Len(sent) = SubQueries

\* a batch whose first element's only request failed and whose second
\* element's request was then sent
C14_Witness ==
    /\ BatchRan
    /\ Len(sent) = 2
    /\ sent[1].elem = 1 /\ sent[1].status = 500
    /\ sent[2].elem = 2

\* the statuses a handler answers with
HandlerStatuses == {200, 400, 401, 429, 500}

\* C15: every invocation returns a response with status 200, 400, 401, 429
\* or 500, provided every upstream call completes or fails, and a batch
\* over a list reaches its final summary response.
C15_InvocationResponds ==
    (pc # "idle") ~>
        (/\ Finished
         /\ response.status \in HandlerStatuses
         /\ BatchRan => response.hasResults /\ response.status = 200)

\* the character string is a decimal number, and its value
IsNumber(s) ==
    /\ Len(s) > 0
    /\ \/ \A k \in 1..Len(s) : s[k] \in DecDigits
       \/ Len(s) > 1 /\ s[1] = "-" /\ \A k \in 2..Len(s) : s[k] \in DecDigits
NumberValue(s) ==
    IF s[1] = "-" THEN 0 - DigitsValue(s, 2, 0) ELSE DigitsValue(s, 1, 0)
LimitInRange(s) ==
    IsNumber(s) /\ NumberValue(s) >= MinLimit /\ NumberValue(s) <= MaxLimit
OffsetInRange(s) == IsNumber(s) /\ NumberValue(s) >= MinOffset

\* C16: the NFT route sends an upstream request only with a limit and an
\* offset in the URL that are numbers, 1 <= limit <= 100 and offset >= 0;
\* a GET with any other limit or offset sends nothing and answers 400.
C16_NftLimitOffset ==
    req.route = "nft" =>
        /\ \A j \in 1..Len(sent) :
              LimitInRange(sent[j].url.limit) /\ OffsetInRange(sent[j].url.offset)
        /\ req.method = "GET"
              /\ (~LimitInRange(OrElseChars(req.q.limit, DefaultLimit))
                  \/ ~OffsetInRange(OrElseChars(req.q.offset, DefaultOffset)))
              => sent = << >> /\ (Finished => response.status = 400)

\* the paths of the upstream requests sent so far, in order
SentPaths == [j \in 1..Len(sent) |-> sent[j].url.path]
AllPaths == << "current_value", "details", "profit_and_loss" >>

\* C17: portfolio GET with action all requests current_value, then details,
\* then profit_and_loss (only when both timestamps are given, otherwise
\* profitAndLoss is null), each after the previous one returned and a
\* 1000 ms delay; when a sub-request fails it answers 500 with no data.
C17_PortfolioAll ==
    IsPortfolioAll =>
        /\ Len(sent) <= SubQueries
        /\ SentPaths = SubSeq(AllPaths, 1, Len(sent))
        /\ \A j \in 2..Len(sent) :
              /\ sent[j - 1].status >= 200 /\ sent[j - 1].status <= 299
              /\ sent[j].sentAt >= sent[j - 1].doneAt + RATE_LIMIT_DELAY_MS
        /\ Finished /\ (\E j \in 1..Len(sent) : CallFailed(j)) =>
              /\ response.status = 500
              /\ ~response.hasData
              /\ response.data = NoData
        /\ Finished /\ response.status = 200 =>
              /\ Len(sent) = SubQueries
              /\ response.data.currentValue
              /\ response.data.tokenDetails
              /\ response.data.profitAndLoss <=> SubQueries = 3

\* the details sub-request failed after current_value had been fetched
C17_Witness ==
    /\ IsPortfolioAll
    /\ Finished
    /\ Len(sent) = 2
    /\ sent[1].status = 200
    /\ sent[2].status = 500
    /\ response.status = 500

\* the elements of a list
Elems(list) == {list[k] : k \in 1..Len(list)}

\* C18: after any toggleFavorite calls the list in local storage holds
\* exactly the addresses toggled an odd number of times (so toggling an
\* address twice restores the set), each once, and the favorites in memory
\* are that list once the panel has loaded them.
C18_FavoritesFollowToggles ==
    storage.saved =>
        /\ Elems(storage.list) = toggledOdd
        /\ Len(storage.list) = Cardinality(toggledOdd)
        /\ TokenSearchShown(page, isConnected, mounted, activeSection)
              /\ "favorites" \notin effects
              => favorites = storage.list

\* a wallet history GET that answered 200, and the body the upstream sent
HistoryAnswered ==
    Finished /\ req.method = "GET" /\ req.route = "history" /\ response.status = 200
UpstreamItems == sent[1].body.items

\* C19: the wallet history route returns one transaction per upstream
\* item, in upstream order, an item without status reported as completed,
\* and total is the number of transactions; a body without items gives an
\* empty list and total 0.
C19_HistoryTransactions ==
    HistoryAnswered =>
        /\ response.txTotal = Len(response.transactions)
        /\ UpstreamItems.t # "array" =>
              response.transactions = << >> /\ response.txTotal = 0
        /\ UpstreamItems.t = "array" =>
              /\ Len(response.transactions) = Len(UpstreamItems.v)
              /\ \A k \in 1..Len(UpstreamItems.v) :
                    /\ response.transactions[k].id = UpstreamItems.v[k].id
                    /\ response.transactions[k].status =
                          IF UpstreamItems.v[k].status = Undefined THEN "completed"
                          ELSE UpstreamItems.v[k].status

C19_Witness ==
    /\ HistoryAnswered
    /\ UpstreamItems.t = "array"
    /\ Len(UpstreamItems.v) = 2
    /\ UpstreamItems.v[1].status = Undefined
    /\ response.transactions[1].status = "completed"
    /\ response.transactions[2].id = "e2"

\* the query of the current selection
CurrentQuery == SearchParams(ConnectedAddress, selectedChain, panelLimit)

\* C20: in the wallet history panel, once no fetch is in flight (and none
\* is about to start) and the last answer was no failure, the transactions
\* displayed are those returned for the selected address, chain and limit.
C20_PanelShowsSelection ==
    /\ inFlight = << >>
    /\ ~fetchEffect
    /\ ~panelError
    /\ transactions # NoQuery
    => transactions = CurrentQuery

\* C21: in the token search panel at most one fetch is in flight, and
\* loading is true exactly while a fetch is outstanding.
C21_OneTokenFetch ==
    /\ Len(tokensInFlight) <= 1
    /\ tokenLoading <=> tokensInFlight # << >>

\* C22: in every batch response total is the length of the input list and
\* of results, successful + failed = total, and successful is the number
\* of entries with success:true.
C22_SummaryCounts ==
    Finished /\ response.hasResults =>
        /\ BatchRan
        /\ response.total = Len(BatchList)
        /\ response.total = Len(response.results)
        /\ response.successful + response.failed = response.total
        /\ response.successful =
              Cardinality({k \in 1..Len(response.results) : response.results[k].success})
\* a batch response that counts a successful and a failed entry
C22_Witness ==
    /\ Finished
    /\ response.hasResults
    /\ response.successful = 1
    /\ response.failed = 1

\* the routes whose batch elements name their chain by id or by name
ChainRoutes == {"gasprice", "spotprice", "token"}

\* C23: in the gas price, spot price and token batch routes the chainId of
\* a results entry is the chain id of the upstream URL built for that
\* element, for successful and failed entries alike.
C23_EntryChainId ==
    Finished /\ BatchRan /\ response.hasResults /\ req.route \in ChainRoutes =>
        \A k \in 1..Len(response.results) : \A j \in RequestsOf(k) :
            response.results[k].chainId = sent[j].url.chainId

\* the limit and the offset of an URL are the decimal numerals of the
\* numbers reported
SentAsReported(url, p) ==
    /\ IsNumber(url.limit) /\ NumberValue(url.limit) = p.limit
    /\ IsNumber(url.offset) /\ NumberValue(url.offset) = p.offset
\* the metadata agrees with itself and with the assets of the body
PageConsistent(p, body) ==
    LET assets == IF body.assets.t = "array" THEN Len(body.assets.v) ELSE 0
    IN  /\ p.nextOffset = p.offset + p.limit
        /\ p.totalItems = assets
        /\ p.hasMore <=> (body.assets.t = "array" /\ assets = p.limit)

\* C28: in every successful NFT response (of a GET, and every successful
\* entry of a batch) the reported limit and offset are the values sent
\* upstream, nextOffset = offset + limit, totalItems is the number of assets
\* returned, and hasMore holds exactly when that number equals limit.
C28_NftPagination ==
    Finished /\ req.route = "nft" =>
        /\ req.method = "GET" /\ response.success =>
              /\ SentAsReported(sent[1].url, response.page)
              /\ PageConsistent(response.page, sent[1].body)
        /\ BatchRan /\ response.hasResults =>
              \A k \in 1..Len(response.results) : \A j \in RequestsOf(k) :
                  response.results[k].success =>
                      /\ SentAsReported(sent[j].url, response.results[k].page)
                      /\ PageConsistent(response.results[k].page, sent[j].body)

\* the wallet history fetch that a step completes, 0 when it completes none
Answered ==
    IF Len(inFlight') = Len(inFlight) - 1 /\ inFlight # << >>
    THEN CHOOSE k \in 1..Len(inFlight) :
            inFlight' = SubSeq(inFlight, 1, k - 1) \o SubSeq(inFlight, k + 1, Len(inFlight))
    ELSE 0
\* the same for the token search panel
TokenAnswered ==
    IF Len(tokensInFlight') = Len(tokensInFlight) - 1 /\ tokensInFlight # << >>
    THEN CHOOSE k \in 1..Len(tokensInFlight) :
            tokensInFlight' = SubSeq(tokensInFlight, 1, k - 1)
                                 \o SubSeq(tokensInFlight, k + 1, Len(tokensInFlight))
    ELSE 0

\* C24: in both panels, when a fetch completes loading becomes false and
\* either the list was replaced by the answer and lastUpdated set, or error
\* is non-null.
C24_OutcomeVisible ==
    [][/\ Answered # 0 =>
            /\ ~loading'
            /\ \/ transactions' = inFlight[Answered] /\ lastUpdated' > lastUpdated
               \/ panelError'
       /\ TokenAnswered # 0 =>
            /\ ~tokenLoading'
            /\ \/ tokenList' = tokensInFlight[TokenAnswered]
                  /\ tokenLastUpdated' > tokenLastUpdated
               \/ tokenError']_vars
\* the token search panel after one fetch was answered with data and a later
\* one failed
C24_Witness ==
    /\ tokensInFlight = << >>
    /\ ~tokenLoading
    /\ tokenLastUpdated > 0
    /\ tokenError

\* a step that is the failure of a fetch
FetchFails == \E k \in 1..MaxInFlight : PanelResponse(k, "failed")
TokenFetchFails ==
    \E k \in 1..MaxInFlight, outcome \in {"null", "failed"} : TokenResponse(k, outcome)

\* C27: in both panels a failed fetch changes only loading and error (and
\* ends that fetch): the list, lastUpdated and the selections keep their
\* values; starting a fetch clears error and leaves the list and lastUpdated.
C27_FailureFrame ==
    [][/\ FetchFails =>
            UNCHANGED << transactions, lastUpdated, selectedChain, panelLimit,
                         fetchEffect, tokenvars >>
       /\ TokenFetchFails =>
            UNCHANGED << tokenList, tokenLastUpdated, selectedAction, searchQuery,
                         addressesText, panelvars >>
       /\ Len(inFlight') > Len(inFlight) =>
            ~panelError' /\ UNCHANGED << transactions, lastUpdated >>
       /\ Len(tokensInFlight') > Len(tokensInFlight) =>
            ~tokenError' /\ UNCHANGED << tokenList, tokenLastUpdated >>]_vars
\* the wallet history panel showing an earlier answer and the error of a
\* later fetch
C27_Witness ==
    /\ inFlight = << >>
    /\ ~loading
    /\ panelError
    /\ transactions # NoQuery
    /\ lastUpdated > 0

\* C25: the dashboard body is rendered only while the component is mounted
\* and the wallet connected, the dashboard renders the loading placeholder
\* in every other state, and once mounted and disconnected it navigates to /.
C25_DashboardGuard ==
    /\ [](/\ rendered = "body" => page = "/dashboard" /\ mounted /\ isConnected
          /\ page = "/dashboard" /\ ~(mounted /\ isConnected) => rendered = "placeholder"
          /\ TokenSearchShown(page, isConnected, mounted, activeSection)
                => rendered = "body")
    /\ (page = "/dashboard" /\ mounted /\ ~isConnected) ~> (page = "/")
\* the dashboard, mounted, after the wallet disconnected
C25_Witness ==
    /\ page = "/dashboard"
    /\ mounted
    /\ ~isConnected
    /\ rendered = "placeholder"
    /\ "redirect" \in effects

\* the page that matches the connection state
Home == IF isConnected THEN "/dashboard" ELSE "/"

\* C26: the two redirects never alternate forever.  While the connection
\* state does not change, a navigation starts only on the page that does
\* not match it and ends on the page that does (so at most one redirect
\* happens), and for a connection state that stops changing the page
\* stabilises on /dashboard if connected and on / if not.
C26_RedirectsSettle ==
    /\ [][page # "none" /\ page' # page =>
              /\ isConnected' = isConnected
              /\ page # Home
              /\ page' = Home]_vars
    /\ <>[](isConnected /\ page # "none") => <>[](page = "/dashboard")
    /\ <>[](~isConnected /\ page # "none") => <>[](page = "/")
\* the landing page reached from the dashboard, where favorites had been
\* saved: the dashboard redirected after the wallet disconnected
C26_Witness ==
    /\ page = "/"
    /\ ~isConnected
    /\ storage.saved
    /\ effects = {}

====
